---------------------------- MODULE Spec2Model ----------------------------
(***************************************************************************)
(* Lumi-IA: behavioural mood classification (MoodDetectorService), the    *)
(* personality engine with its per-minute result cache (PersonalityEngine) *)
(* and the lumi_memory persistence they share (DatabaseManager).           *)
(*                                                                         *)
(* Numbers.  Python floats are modelled as exact rationals [n, d] (d > 0,  *)
(* reduced).  Indicator weights and the MoodDetectorService bonuses are    *)
(* kept in tenths, the PersonalityEngine raw scores in hundredths; the     *)
(* normalised scores are rationals.  Time is wall-clock seconds.           *)
(***************************************************************************)
EXTENDS Integers, Sequences, FiniteSets, TLC

(***************************************************************************)
(* Bounds of the model                                                     *)
(***************************************************************************)
MaxOverdue == 4
MaxTicks == 2
MaxCalls == 2
MaxChats == 2      \* chat requests posted
MaxInteractions == 2   \* interactionCount up to which feedback is processed

(***************************************************************************)
(* Program constants                                                       *)
(***************************************************************************)
SecondsPerDay == 86400
SecondsPerHour == 3600
SecondsPerMinute == 60
CacheTTL == 1800
TransitionConfidence == [n |-> 7, d |-> 10]
DefaultConfidence == [n |-> 1, d |-> 2]
MinConfidence == [n |-> 3, d |-> 10]

NoPeak == -1
NoRow == [present |-> FALSE]

(***************************************************************************)
(* Rationals                                                               *)
(***************************************************************************)
Abs(x) == IF x < 0 THEN -x ELSE x
Min(a, b) == IF a <= b THEN a ELSE b
Max(a, b) == IF a >= b THEN a ELSE b

RECURSIVE GCD(_, _)
GCD(a, b) == IF b = 0 THEN a ELSE GCD(b, a % b)

Rat(n, d) ==
    LET g == GCD(Abs(n), d)
    IN  [n |-> n \div g, d |-> d \div g]

RatLE(a, b) == a.n * b.d <= b.n * a.d
RatLT(a, b) == a.n * b.d < b.n * a.d
RatMin(a, b) == IF RatLE(a, b) THEN a ELSE b
Zero == [n |-> 0, d |-> 1]
One == [n |-> 1, d |-> 1]
InUnit(r) == RatLE(Zero, r) /\ RatLE(r, One)

RECURSIVE SumSeq(_)
SumSeq(s) == IF s = <<>> THEN 0 ELSE Head(s) + SumSeq(Tail(s))

Take(s, k) == SubSeq(s, 1, Min(k, Len(s)))

(***************************************************************************)
(* config/personality_config.py                                            *)
(***************************************************************************)
MoodOrder == <<"motivated", "struggling", "focused", "overwhelmed", "celebrating", "returning">>
Moods == {MoodOrder[i] : i \in 1..Len(MoodOrder)}

MOOD_STATES ==
    [motivated   |-> "casual",
     struggling  |-> "supportive",
     focused     |-> "direct",
     overwhelmed |-> "calming",
     celebrating |-> "enthusiastic",
     returning   |-> "welcoming"]

\* one rule: the indicator key it looks up and its condition
\* (op = "min" | "max" | "ratio" | "hours" | "true")
Rule(k, o, n, d) == [key |-> k, op |-> o, val |-> [n |-> n, d |-> d]]

\* mutation of MOOD_DETECTION_RULES: the streak rule of "motivated" is keyed by
\* the indicator type the detector emits (current_streak)
MOOD_DETECTION_RULES_current_streak ==
    [motivated   |-> << Rule("tasks_completed_today", "min", 3, 1),
                        Rule("current_streak", "min", 2, 1),
                        Rule("pomodoros_completed_today", "min", 4, 1),
                        Rule("recent_activity", "hours", 2, 1) >>,
     struggling  |-> << Rule("tasks_overdue", "min", 2, 1),
                        Rule("days_since_completion", "min", 3, 1),
                        Rule("completion_rate_week", "max", 3, 10),
                        Rule("inactive_days", "min", 2, 1) >>,
     focused     |-> << Rule("avg_pomodoro_duration", "min", 20, 1),
                        Rule("consecutive_pomodoros", "min", 3, 1),
                        Rule("task_switches_today", "max", 2, 1),
                        Rule("current_session_length", "min", 40, 1) >>,
     overwhelmed |-> << Rule("pending_tasks", "min", 10, 1),
                        Rule("tasks_created_vs_completed", "ratio", 3, 1),
                        Rule("priority_high_pending", "min", 5, 1),
                        Rule("completion_rate_week", "max", 4, 10) >>,
     celebrating |-> << Rule("goals_achieved_week", "min", 1, 1),
                        Rule("streak_days", "min", 7, 1),
                        Rule("completion_rate_week", "min", 8, 10),
                        Rule("personal_best", "true", 1, 1) >>,
     returning   |-> << Rule("days_since_last_activity", "min", 3, 1),
                        Rule("previous_streak", "min", 5, 1),
                        Rule("total_tasks_completed", "min", 10, 1),
                        Rule("welcome_back", "true", 1, 1) >>]

MOOD_DETECTION_RULES ==
    [motivated   |-> << Rule("tasks_completed_today", "min", 3, 1),
                        Rule("streak_days", "min", 2, 1),
                        Rule("pomodoros_completed_today", "min", 4, 1),
                        Rule("recent_activity", "hours", 2, 1) >>,
     struggling  |-> << Rule("tasks_overdue", "min", 2, 1),
                        Rule("days_since_completion", "min", 3, 1),
                        Rule("completion_rate_week", "max", 3, 10),
                        Rule("inactive_days", "min", 2, 1) >>,
     focused     |-> << Rule("avg_pomodoro_duration", "min", 20, 1),
                        Rule("consecutive_pomodoros", "min", 3, 1),
                        Rule("task_switches_today", "max", 2, 1),
                        Rule("current_session_length", "min", 40, 1) >>,
     overwhelmed |-> << Rule("pending_tasks", "min", 10, 1),
                        Rule("tasks_created_vs_completed", "ratio", 3, 1),
                        Rule("priority_high_pending", "min", 5, 1),
                        Rule("completion_rate_week", "max", 4, 10) >>,
     celebrating |-> << Rule("goals_achieved_week", "min", 1, 1),
                        Rule("streak_days", "min", 7, 1),
                        Rule("completion_rate_week", "min", 8, 10),
                        Rule("personal_best", "true", 1, 1) >>,
     returning   |-> << Rule("days_since_last_activity", "min", 3, 1),
                        Rule("previous_streak", "min", 5, 1),
                        Rule("total_tasks_completed", "min", 10, 1),
                        Rule("welcome_back", "true", 1, 1) >>]

(***************************************************************************)
(* The behaviour snapshot (user_context of fetch_user_context)             *)
(***************************************************************************)
Pomodoro(s, dur, t) == [status |-> s, duration |-> dur, title |-> t]
Day(c, k) == [tasks_created |-> c, tasks_completed |-> k]

CompletedOf(pomodoros) == SelectSeq(pomodoros, LAMBDA p : p.status = "completed")

HourOf(t) == (t % SecondsPerDay) \div SecondsPerHour
MinuteOf(t) == (t % SecondsPerDay) \div SecondsPerMinute

(***************************************************************************)
(* services/mood_detector.py: indicators                                   *)
(***************************************************************************)
Indicator(t, v, w) == [indicator_type |-> t, value |-> v, weight |-> w]

\* `if peak_hour:` is false for None and for 0
PeakHourTruthy(peak_hour) == peak_hour # NoPeak /\ peak_hour # 0

calculate_mood_indicators(ctx, current_hour) ==
    LET completed == CompletedOf(ctx.today_pomodoros)
        today_completed_pomodoros == Len(completed)
        durations == [i \in 1..Len(completed) |-> completed[i].duration]
        recent_trend == ctx.recent_activity[1].tasks_completed
                          - ctx.recent_activity[2].tasks_completed
    IN  (IF ctx.total_tasks > 0
           THEN <<Indicator("completion_rate", Rat(ctx.completed_tasks, ctx.total_tasks), 8)>>
           ELSE <<>>)
        \o (IF ctx.overdue_tasks > 0
              THEN <<Indicator("overdue_tasks", Rat(ctx.overdue_tasks, 1), 9)>>
              ELSE <<>>)
        \o <<Indicator("current_streak", Rat(ctx.current_streak, 1), 7)>>
        \o <<Indicator("today_pomodoros", Rat(today_completed_pomodoros, 1), 6)>>
        \o (IF Len(ctx.recent_activity) >= 2
              THEN <<Indicator("activity_trend", Rat(recent_trend, 1), 5)>>
              ELSE <<>>)
        \o (IF ctx.today_pomodoros # <<>> /\ today_completed_pomodoros > 0
              THEN <<Indicator("focus_quality",
                               Rat(SumSeq(durations), today_completed_pomodoros), 4)>>
              ELSE <<>>)
        \o (IF ctx.pending_tasks > 0
              THEN <<Indicator("overwhelm_level",
                               RatMin(Rat(ctx.pending_tasks, 10), One), 6)>>
              ELSE <<>>)
        \o (IF PeakHourTruthy(ctx.peak_hour)
              THEN <<Indicator("timing_alignment",
                               Rat(12 - Abs(current_hour - ctx.peak_hour), 12), 3)>>
              ELSE <<>>)

\* indicator_values = {ind.indicator_type: ind.value ...}; .get(key, 0)
HasIndicator(indicators, key) ==
    \E i \in 1..Len(indicators) : indicators[i].indicator_type = key

IndicatorOf(indicators, key) ==
    indicators[CHOOSE i \in 1..Len(indicators) : indicators[i].indicator_type = key]

IndicatorGet(indicators, key) ==
    IF HasIndicator(indicators, key) THEN IndicatorOf(indicators, key).value ELSE Zero

(***************************************************************************)
(* services/mood_detector.py: bonus functions (tenths)                     *)
(***************************************************************************)
R(n, d) == [n |-> n, d |-> d]

calculate_motivated_bonus(ind) ==
      (IF RatLT(R(7, 10), IndicatorGet(ind, "completion_rate")) THEN 3 ELSE 0)
    + (IF RatLE(R(3, 1), IndicatorGet(ind, "current_streak")) THEN 2 ELSE 0)
    + (IF RatLE(R(3, 1), IndicatorGet(ind, "today_pomodoros")) THEN 2 ELSE 0)
    + (IF RatLT(Zero, IndicatorGet(ind, "activity_trend")) THEN 1 ELSE 0)

calculate_struggling_bonus(ind) ==
      (IF RatLE(R(2, 1), IndicatorGet(ind, "overdue_tasks")) THEN 4 ELSE 0)
    + (IF RatLT(IndicatorGet(ind, "completion_rate"), R(3, 10)) THEN 3 ELSE 0)
    + (IF IndicatorGet(ind, "current_streak") = Zero THEN 2 ELSE 0)
    + (IF IndicatorGet(ind, "today_pomodoros") = Zero THEN 2 ELSE 0)

calculate_focused_bonus(ind) ==
      (IF RatLE(R(20, 1), IndicatorGet(ind, "focus_quality")) THEN 3 ELSE 0)
    + (IF RatLE(R(3, 1), IndicatorGet(ind, "today_pomodoros")) THEN 2 ELSE 0)
    + (IF RatLT(R(8, 10), IndicatorGet(ind, "timing_alignment")) THEN 2 ELSE 0)

calculate_overwhelmed_bonus(ind) ==
      (IF RatLT(R(7, 10), IndicatorGet(ind, "overwhelm_level")) THEN 4 ELSE 0)
    + (IF RatLE(R(3, 1), IndicatorGet(ind, "overdue_tasks")) THEN 3 ELSE 0)
    + (IF RatLT(IndicatorGet(ind, "completion_rate"), R(4, 10)) THEN 2 ELSE 0)

calculate_celebrating_bonus(ind) ==
      (IF RatLE(R(7, 1), IndicatorGet(ind, "current_streak")) THEN 4 ELSE 0)
    + (IF RatLE(R(8, 10), IndicatorGet(ind, "completion_rate")) THEN 3 ELSE 0)
    + (IF RatLT(R(1, 1), IndicatorGet(ind, "activity_trend")) THEN 2 ELSE 0)

calculate_returning_bonus(ind) ==
      (IF IndicatorGet(ind, "current_streak") = Zero THEN 2 ELSE 0)
    + (IF IndicatorGet(ind, "today_pomodoros") = Zero THEN 1 ELSE 0)

MoodBonus(mood, ind) ==
    CASE mood = "motivated"   -> calculate_motivated_bonus(ind)
      [] mood = "struggling"  -> calculate_struggling_bonus(ind)
      [] mood = "focused"     -> calculate_focused_bonus(ind)
      [] mood = "overwhelmed" -> calculate_overwhelmed_bonus(ind)
      [] mood = "celebrating" -> calculate_celebrating_bonus(ind)
      [] mood = "returning"   -> calculate_returning_bonus(ind)

(***************************************************************************)
(* services/mood_detector.py: rule application and selection               *)
(***************************************************************************)
RuleWeight(rule, ind) ==
    IF HasIndicator(ind, rule.key) THEN IndicatorOf(ind, rule.key).weight ELSE 0

RuleScore(rule, ind) ==
    IF ~HasIndicator(ind, rule.key) THEN 0
    ELSE LET value == IndicatorOf(ind, rule.key).value
             weight == IndicatorOf(ind, rule.key).weight
         IN  CASE rule.op = "min"  -> IF RatLE(rule.val, value) THEN weight ELSE 0
               [] rule.op = "max"  -> IF RatLE(value, rule.val) THEN weight ELSE 0
               [] rule.op = "true" -> weight
               [] OTHER            -> 0

RECURSIVE RulesScore(_, _)
RulesScore(rules, ind) ==
    IF rules = <<>> THEN 0
    ELSE RuleScore(Head(rules), ind) + RulesScore(Tail(rules), ind)

RECURSIVE RulesWeight(_, _)
RulesWeight(rules, ind) ==
    IF rules = <<>> THEN 0
    ELSE RuleWeight(Head(rules), ind) + RulesWeight(Tail(rules), ind)

\* mutation of NormalizeScore: the `if total_weight > 0 else 0.0` guard is lost
NormalizeScoreUnguarded(score, total_weight) ==
    Rat(score, Max(total_weight, 10))

\* score / max(total_weight, 1.0) if total_weight > 0 else 0.0   (tenths)
NormalizeScore(score, total_weight) ==
    IF total_weight > 0 THEN Rat(score, Max(total_weight, 10)) ELSE Zero

apply_detection_rules(ind) ==
    [mood \in Moods |->
        NormalizeScore(RulesScore(MOOD_DETECTION_RULES[mood], ind) + MoodBonus(mood, ind),
                       RulesWeight(MOOD_DETECTION_RULES[mood], ind))]

\* mutation of FirstMax: the last maximal item in dict order (max over reversed
\* items, or a >= comparison in a hand-written loop)
LastMax(scores) ==
    MoodOrder[CHOOSE i \in 1..Len(MoodOrder) :
                 /\ \A j \in 1..Len(MoodOrder) : RatLE(scores[MoodOrder[j]], scores[MoodOrder[i]])
                 /\ \A j \in (i + 1)..Len(MoodOrder) : RatLT(scores[MoodOrder[j]], scores[MoodOrder[i]])]

\* max(mood_scores.items(), key=...) returns the first maximal item in dict order
FirstMax(scores) ==
    MoodOrder[CHOOSE i \in 1..Len(MoodOrder) :
                 /\ \A j \in 1..Len(MoodOrder) : RatLE(scores[MoodOrder[j]], scores[MoodOrder[i]])
                 /\ \A j \in 1..(i - 1) : RatLT(scores[MoodOrder[j]], scores[MoodOrder[i]])]

determine_primary_mood(mood_scores) ==
    IF \A m \in Moods : mood_scores[m].n = 0
    THEN [mood |-> "encouraging", confidence |-> DefaultConfidence]
    ELSE LET mood_name == FirstMax(mood_scores)
             confidence == mood_scores[mood_name]
         IN  IF RatLT(confidence, MinConfidence)
             THEN [mood |-> "encouraging", confidence |-> confidence]
             ELSE [mood |-> mood_name, confidence |-> RatMin(confidence, One)]

(***************************************************************************)
(* core/personality_engine.py: raw scores (hundredths)                     *)
(***************************************************************************)
HasTasks(ctx) == ctx.total_tasks > 0

\* lumi_memory.get("interaction_count", 0) on the row fetch_user_context
\* returns, whose keys are the column names
LumiMemoryKeys == {"personalityProfile", "behaviorPatterns", "achievements",
                   "contextualMemory", "currentMood", "interactionCount",
                   "createdAt", "updatedAt"}

interaction_count(lumi_memory) ==
    IF "interaction_count" \in LumiMemoryKeys THEN lumi_memory.interactionCount ELSE 0

CompletedPerDay(recent_activity) ==
    [i \in 1..Len(recent_activity) |-> recent_activity[i].tasks_completed]

CreatedPerDay(recent_activity) ==
    [i \in 1..Len(recent_activity) |-> recent_activity[i].tasks_created]

calculate_motivated_score(ctx) ==
    LET today_completions == Len(CompletedOf(ctx.today_pomodoros))
        score ==
              (IF today_completions >= 3 THEN 30 ELSE 0)
            + (IF ctx.current_streak >= 2 THEN 20 + Min(ctx.current_streak * 5, 30) ELSE 0)
            + (IF HasTasks(ctx) /\ ctx.completed_tasks * 10 > 7 * ctx.total_tasks THEN 20 ELSE 0)
            + (IF Len(ctx.recent_activity) >= 2
                  /\ ctx.recent_activity[1].tasks_completed
                       - ctx.recent_activity[2].tasks_completed > 0
               THEN 10 ELSE 0)
    IN  Min(score, 100)

\* mutation of OverdueScore: `==` written for `>=`
OverdueScoreOnlyTwo(overdue_tasks) ==
    IF overdue_tasks = 2 THEN 30 + Min(overdue_tasks * 10, 20) ELSE 0

\* if overdue_tasks >= 2: score += 0.3 + min(overdue_tasks * 0.1, 0.2)
OverdueScore(overdue_tasks) ==
    IF overdue_tasks >= 2 THEN 30 + Min(overdue_tasks * 10, 20) ELSE 0

calculate_struggling_score(ctx) ==
    LET recent_completions == CompletedPerDay(Take(ctx.recent_activity, 3))
        score ==
              OverdueScore(ctx.overdue_tasks)
            + (IF HasTasks(ctx) /\ ctx.completed_tasks * 10 < 3 * ctx.total_tasks THEN 30 ELSE 0)
            + (IF ctx.current_streak = 0 THEN 20 ELSE 0)
            + (IF Len(ctx.recent_activity) >= 3
                  /\ \A i \in 1..2 : recent_completions[i] >= recent_completions[i + 1]
               THEN 20 ELSE 0)
    IN  Min(score, 100)

RECURSIVE ConsecutiveCompleted(_)
ConsecutiveCompleted(pomodoros) ==
    IF pomodoros = <<>> \/ Head(pomodoros).status # "completed" THEN 0
    ELSE 1 + ConsecutiveCompleted(Tail(pomodoros))

calculate_focused_score(ctx, current_time) ==
    LET completed_pomodoros == CompletedOf(ctx.today_pomodoros)
        durations == [i \in 1..Len(completed_pomodoros) |-> completed_pomodoros[i].duration]
        titles == {ctx.today_pomodoros[i].title : i \in 1..Len(ctx.today_pomodoros)}
        score ==
              (IF completed_pomodoros # <<>>
                    /\ SumSeq(durations) >= 20 * Len(completed_pomodoros)
               THEN 30 ELSE 0)
            + (IF ConsecutiveCompleted(ctx.today_pomodoros) >= 3 THEN 20 ELSE 0)
            + (IF PeakHourTruthy(ctx.peak_hour) /\ Abs(current_time - ctx.peak_hour) <= 1
               THEN 20 ELSE 0)
            + (IF Cardinality(titles) <= 2 /\ Len(ctx.today_pomodoros) >= 3 THEN 30 ELSE 0)
    IN  Min(score, 100)

calculate_overwhelmed_score(ctx) ==
    LET recent_created == SumSeq(CreatedPerDay(Take(ctx.recent_activity, 3)))
        recent_completed == SumSeq(CompletedPerDay(Take(ctx.recent_activity, 3)))
        incomplete_pomodoros ==
            Len(SelectSeq(ctx.today_pomodoros, LAMBDA p : p.status # "completed"))
        score ==
              (IF ctx.pending_tasks >= 10 THEN 40
               ELSE IF ctx.pending_tasks >= 5 THEN 20 ELSE 0)
            + (IF ctx.recent_activity # <<>> /\ recent_created > 0
                    /\ recent_completed * 10 < 4 * recent_created
               THEN 30 ELSE 0)
            + (IF ctx.pending_tasks >= 5 THEN 20 ELSE 0)
            + (IF incomplete_pomodoros >= 3 THEN 20 ELSE 0)
    IN  Min(score, 100)

calculate_celebrating_score(ctx) ==
    LET today_completed == ctx.recent_activity[1].tasks_completed
        rest == SumSeq(CompletedPerDay(Tail(ctx.recent_activity)))
        score ==
              (IF ctx.current_streak >= 7
               THEN 40 + Min((ctx.current_streak - 7) * 5, 20) ELSE 0)
            + (IF HasTasks(ctx) /\ ctx.completed_tasks * 10 >= 8 * ctx.total_tasks THEN 30 ELSE 0)
            \* today_completed > avg_completion * 1.5, avg = rest / (len - 1)
            + (IF Len(ctx.recent_activity) > 1
                    /\ today_completed * 2 * (Len(ctx.recent_activity) - 1) > 3 * rest
               THEN 30 ELSE 0)
    IN  Min(score, 100)

calculate_returning_score(ctx) ==
    LET total_tasks == SumSeq(CompletedPerDay(ctx.recent_activity))
        score ==
              (IF Len(ctx.recent_activity) = 0 THEN 50
               ELSE IF Len(ctx.recent_activity) < 3 THEN 30 ELSE 0)
            + (IF ctx.current_streak = 0 /\ ctx.lumi_memory.present
                    /\ interaction_count(ctx.lumi_memory) > 10
               THEN 30 ELSE 0)
            + (IF ctx.lumi_memory.present /\ interaction_count(ctx.lumi_memory) > 5
                    /\ total_tasks < 3
               THEN 20 ELSE 0)
    IN  Min(score, 100)

RawMoodScores(ctx, current_time) ==
    [motivated   |-> calculate_motivated_score(ctx),
     struggling  |-> calculate_struggling_score(ctx),
     focused     |-> calculate_focused_score(ctx, current_time),
     overwhelmed |-> calculate_overwhelmed_score(ctx),
     celebrating |-> calculate_celebrating_score(ctx),
     returning   |-> calculate_returning_score(ctx)]

MaxOfScores(raw) ==
    CHOOSE x \in {raw[m] : m \in Moods} : \A m \in Moods : raw[m] <= x

\* mutation of calculate_mood_scores: the max-normalisation is lost and the raw
\* scores are returned
calculate_mood_scores_raw(ctx, current_time) ==
    [m \in Moods |-> Rat(RawMoodScores(ctx, current_time)[m], 100)]

\* max_score = max(values); if max_score > 0: score / max_score
calculate_mood_scores(ctx, current_time) ==
    LET raw == RawMoodScores(ctx, current_time)
        max_score == MaxOfScores(raw)
    IN  [m \in Moods |-> IF max_score > 0 THEN Rat(raw[m], max_score) ELSE Rat(raw[m], 1)]

get_personality_tone(mood, confidence) ==
    IF RatLT(confidence, R(1, 2)) THEN "supportive" ELSE MOOD_STATES[mood]

\* the mood_analysis dict built by analyze_user_mood on a cache miss
ComputeMoodAnalysis(ctx, current_time) ==
    LET mood_scores == calculate_mood_scores(ctx, current_time)
        mood_name == FirstMax(mood_scores)
        confidence == mood_scores[mood_name]
    IN  [detected_mood      |-> mood_name,
         confidence         |-> confidence,
         personality_tone   |-> get_personality_tone(mood_name, confidence),
         adaptation_applied |-> TRUE,
         mood_scores        |-> mood_scores]

get_default_mood ==
    [detected_mood      |-> "neutral",
     confidence         |-> DefaultConfidence,
     personality_tone   |-> "friendly",
     adaptation_applied |-> FALSE,
     mood_scores        |-> <<>>]

(***************************************************************************)
(* services/mood_detector.py: transition, insights, recommendations        *)
(***************************************************************************)
NoTransition == [present |-> FALSE]

identify_transition_triggers(from_mood, to_mood) ==
    IF from_mood = "motivated" /\ to_mood = "overwhelmed" THEN <<"Aumento na carga de trabalho">>
    ELSE IF from_mood = "struggling" /\ to_mood = "motivated" THEN <<"Conclusao de tarefas pendentes">>
    ELSE IF from_mood = "focused" /\ to_mood = "celebrating" THEN <<"Atingimento de objetivos">>
    ELSE IF to_mood = "returning" THEN <<"Retorno apos periodo de inatividade">>
    ELSE <<>>

\* mutation of TransitionFrom: a missing row is read as the mood "neutral"
TransitionFromMissingAsNeutral(previous_mood_data, current_mood, at) ==
    LET previous_mood == IF previous_mood_data.present
                         THEN previous_mood_data.currentMood ELSE "neutral"
    IN  IF previous_mood # current_mood
        THEN [present         |-> TRUE,
              from_mood       |-> previous_mood,
              to_mood         |-> current_mood,
              timestamp       |-> at,
              trigger_factors |-> identify_transition_triggers(previous_mood, current_mood),
              confidence      |-> TransitionConfidence]
        ELSE NoTransition

\* mutation of TransitionFrom: the scorer's own confidence is put on the transition
TransitionFromHalfConfidence(previous_mood_data, current_mood, at) ==
    IF previous_mood_data.present /\ previous_mood_data.currentMood # current_mood
    THEN [present         |-> TRUE,
          from_mood       |-> previous_mood_data.currentMood,
          to_mood         |-> current_mood,
          timestamp       |-> at,
          trigger_factors |-> identify_transition_triggers(previous_mood_data.currentMood,
                                                           current_mood),
          confidence      |-> DefaultConfidence]
    ELSE NoTransition

\* _analyze_mood_transition once the row (or its absence) has been read
TransitionFrom(previous_mood_data, current_mood, at) ==
    IF previous_mood_data.present /\ previous_mood_data.currentMood # current_mood
    THEN [present         |-> TRUE,
          from_mood       |-> previous_mood_data.currentMood,
          to_mood         |-> current_mood,
          timestamp       |-> at,
          trigger_factors |-> identify_transition_triggers(previous_mood_data.currentMood,
                                                           current_mood),
          confidence      |-> TransitionConfidence]
    ELSE NoTransition

MoodInsight(mood) ==
    IF mood \in Moods THEN <<[insight |-> "mood", of |-> mood]>> ELSE <<>>

\* mutation of generate_mood_insights: the slice takes the last two of the
\* high-weight indicators ([-2:]) instead of the first two
generate_mood_insights_last_two(mood, indicators, transition) ==
    LET high_weight_indicators == SelectSeq(indicators, LAMBDA ind : ind.weight >= 7)
        n == Len(high_weight_indicators)
        lastTwo == SubSeq(high_weight_indicators, Max(1, n - 1), n)
    IN  MoodInsight(mood)
        \o [i \in 1..Len(lastTwo) |->
               [insight |-> "indicator", of |-> lastTwo[i].indicator_type]]
        \o (IF transition.present
              THEN <<[insight |-> "transition", of |-> transition.to_mood]>> ELSE <<>>)

generate_mood_insights(mood, indicators, transition) ==
    LET high_weight_indicators == SelectSeq(indicators, LAMBDA ind : ind.weight >= 7)
        firstTwo == Take(high_weight_indicators, 2)
    IN  MoodInsight(mood)
        \o [i \in 1..Len(firstTwo) |->
               [insight |-> "indicator", of |-> firstTwo[i].indicator_type]]
        \o (IF transition.present
              THEN <<[insight |-> "transition", of |-> transition.to_mood]>> ELSE <<>>)

generate_mood_recommendations(mood, indicators) ==
    Take(IF mood \in Moods
           THEN <<[recommendation |-> 1, of |-> mood], [recommendation |-> 2, of |-> mood]>>
           ELSE <<>>, 3)

\* mutation of get_default_mood_detection: only the mood and its confidence
DefaultMoodDetectionMoodOnly ==
    [current_mood |-> "encouraging",
     confidence   |-> DefaultConfidence]

\* the dict of lines 522-530
get_default_mood_detection ==
    [current_mood    |-> "encouraging",
     confidence      |-> DefaultConfidence,
     mood_scores     |-> <<>>,
     indicators      |-> <<>>,
     transition      |-> NoTransition,
     insights        |-> <<[insight |-> "default", of |-> "encouraging"]>>,
     recommendations |-> <<[recommendation |-> 0, of |-> "encouraging"]>>]

(***************************************************************************)
(* core/database_manager.py: the lumi_memory row of a user                 *)
(***************************************************************************)
DictGet(d, k, default) == IF k \in DOMAIN d THEN d[k] ELSE default

\* INSERT ... ON CONFLICT ("userId") DO UPDATE SET ...
UpsertLumiMemory(row, memory_data) ==
    [present            |-> TRUE,
     personalityProfile |-> DictGet(memory_data, "personality_profile", "{}"),
     behaviorPatterns   |-> DictGet(memory_data, "behavior_patterns", "{}"),
     achievements       |-> DictGet(memory_data, "achievements", "{}"),
     contextualMemory   |-> DictGet(memory_data, "contextual_memory", "{}"),
     currentMood        |-> DictGet(memory_data, "current_mood", "encouraging"),
     interactionCount   |-> IF row.present THEN row.interactionCount + 1
                            ELSE DictGet(memory_data, "interaction_count", 0)]

\* a row some earlier writer of the shared table left behind
StoredRow(mood) ==
    [present            |-> TRUE,
     personalityProfile |-> "{}",
     behaviorPatterns   |-> "{}",
     achievements       |-> "{}",
     contextualMemory   |-> "{}",
     currentMood        |-> mood,
     interactionCount   |-> 0]

(***************************************************************************)
(* MoodDetectorService.analyze_mood_history                                *)
(***************************************************************************)
\* the methods MoodDetectorService defines (mood_detector.py)
MoodDetectorMethods ==
    {"detect_current_mood", "analyze_mood_history", "predict_mood_changes",
     "_calculate_mood_indicators", "_apply_detection_rules",
     "_calculate_motivated_bonus", "_calculate_struggling_bonus",
     "_calculate_focused_bonus", "_calculate_overwhelmed_bonus",
     "_calculate_celebrating_bonus", "_calculate_returning_bonus",
     "_determine_primary_mood", "_analyze_mood_transition",
     "_identify_transition_triggers", "_generate_mood_insights",
     "_generate_mood_recommendations", "_update_mood_history",
     "_get_default_mood_detection"}

\* the methods analyze_mood_history calls once the history is not empty
HistoryAnalysisCalls ==
    {"_analyze_mood_patterns", "_identify_mood_triggers",
     "_calculate_mood_stability", "_generate_pattern_recommendations"}

\* rows of lumi_memory for one user: "userId" is the conflict target of the
\* upsert, so there is at most one
MoodHistoryRows(row) == IF row.present THEN <<row.currentMood>> ELSE <<>>

\* the dict analyze_mood_history returns; read_ok is whether the query ran
analyze_mood_history_result(mood_history, read_ok) ==
    IF ~read_ok
    THEN [kind |-> "exception", has_stability_score |-> FALSE]
    ELSE IF mood_history = <<>>
    THEN [kind |-> "insufficient", has_stability_score |-> FALSE]
    ELSE IF HistoryAnalysisCalls \subseteq MoodDetectorMethods
    THEN [kind |-> "analysis", has_stability_score |-> TRUE]
    ELSE [kind |-> "exception", has_stability_score |-> FALSE]

(***************************************************************************)
(* PersonalityEngine.mood_cache                                            *)
(***************************************************************************)
\* f"{user_id}_{datetime.now().strftime('%H_%M')}"
CacheKey(user_id, t) == <<user_id, MinuteOf(t)>>

\* timedelta.seconds: the seconds component, days dropped
TimedeltaSeconds(t, timestamp) == (t - timestamp) % SecondsPerDay

\* mutation of CacheFresh: the comparison is inverted
CacheFreshInverted(entry, t) == TimedeltaSeconds(t, entry.timestamp) > CacheTTL

\* (datetime.now() - cached_result["timestamp"]).seconds < 1800
CacheFresh(entry, t) == TimedeltaSeconds(t, entry.timestamp) < CacheTTL

(***************************************************************************)
(* Inputs                                                                  *)
(***************************************************************************)
Users == {"u1"}
NoUser == "none"
Callers == {"c1", "c2"}

\* 10:59:50 on the first day: 20 seconds later both the minute and the hour
\* have changed, 40 seconds later only the second
StartNow == 39590
Jumps == {20, SecondsPerDay}

TaskCounts == {<<0, 0>>, <<8, 1>>, <<10, 5>>, <<10, 9>>}
PendingCounts == {0, 5, 10}
Streaks == {0, 1, 3, 8}
PeakHours == {NoPeak, 0, 9}

PomodoroLists ==
    { <<>>,
      <<Pomodoro("completed", 25, "a"), Pomodoro("completed", 25, "a"),
        Pomodoro("completed", 25, "b")>>,
      <<Pomodoro("cancelled", 10, "a"), Pomodoro("cancelled", 10, "b"),
        Pomodoro("cancelled", 10, "c")>> }

ActivityLists ==
    { <<>>,
      <<Day(2, 2), Day(3, 0)>>,
      <<Day(5, 1), Day(4, 1), Day(3, 2)>>,
      <<Day(2, 1), Day(2, 2), Day(2, 1)>> }

MoodsStored == {"encouraging", "motivated"}

Snapshot(tc, od, pd, st, pom, act, pk, lm) ==
    [total_tasks     |-> tc[1],
     completed_tasks |-> tc[2],
     overdue_tasks   |-> od,
     pending_tasks   |-> pd,
     current_streak  |-> st,
     today_pomodoros |-> pom,
     recent_activity |-> act,
     peak_hour       |-> pk,
     lumi_memory     |-> lm]

Snapshots ==
    { Snapshot(tc, od, pd, st, pom, act, pk, lm) :
        tc \in TaskCounts, od \in 0..MaxOverdue, pd \in PendingCounts, st \in Streaks,
        pom \in PomodoroLists, act \in ActivityLists, pk \in PeakHours,
        lm \in {NoRow, StoredRow("encouraging")} }

ZeroSnapshot == Snapshot(<<0, 0>>, 0, 0, 0, <<>>, <<>>, NoPeak, NoRow)

\* the snapshots the requests of the running service carry
ServiceSnapshots ==
    { ZeroSnapshot,
      Snapshot(<<10, 9>>, 0, 0, 8,
               <<Pomodoro("completed", 25, "a"), Pomodoro("completed", 25, "a"),
                 Pomodoro("completed", 25, "b")>>,
               <<Day(2, 2), Day(3, 0)>>, 9, NoRow) }

(***************************************************************************)
(* State                                                                   *)
(***************************************************************************)
VARIABLES
    now,            \* wall clock, seconds
    ticks,          \* clock advances so far
    ncalls,         \* requests accepted so far
    lumi_memory,    \* the lumi_memory table: user -> row
    mood_cache,     \* PersonalityEngine.mood_cache: cache key -> entry
    call,           \* per caller: the request in flight and its position
    ret,            \* per caller: what its last request returned
    pipeline_runs,  \* <<user, minute>> -> runs of the detect_current_mood pipeline
    score_computes, \* <<user, minute>> -> runs of _calculate_mood_scores
    snapshot,       \* the snapshot under classification (scorer specification)
    scored,         \* what the scorers returned for it
    generated,      \* what the insight/recommendation generators returned
    chat,           \* the POST /api/chat request in flight and its position
    chat_ret,       \* what the last chat request was answered with
    nchats,         \* chat requests accepted so far
    task,           \* the task table: user -> rows
    conversationHistory, \* lumi_memory."conversationHistory": user -> messages
    told,           \* user -> what the user told Lumi in chats that met no failure
    request_history, \* AIEngine.request_history: timestamp -> entries with it
    model_requests  \* timestamp -> requests that passed _check_rate_limit then

chatvars == <<chat, chat_ret, nchats, task, conversationHistory, told>>
enginevars == <<request_history, model_requests>>

vars == <<now, ticks, ncalls, lumi_memory, mood_cache, call, ret,
          pipeline_runs, score_computes, snapshot, scored, generated, chatvars,
          enginevars>>

sysvars == <<now, ticks, ncalls, lumi_memory, mood_cache, call, ret,
             pipeline_runs, score_computes>>

Idle == [op |-> "idle"]
NoResult == [op |-> "none"]
Unscored == [detect |-> NoResult, analyze |-> NoResult]

AbsMinute(t) == t \div SecondsPerMinute

\* callers are interchangeable: the second one is taken only once the first
\* is busy or has been used
MayStart(c) ==
    /\ call[c] = Idle
    /\ c = "c1" \/ call["c1"] # Idle \/ ret["c1"] # NoResult

Count(f, k) == IF k \in DOMAIN f THEN f[k] ELSE 0
Incr(f, k) == IF k \in DOMAIN f THEN [f EXCEPT ![k] = @ + 1] ELSE f @@ (k :> 1)
Put(f, k, v) == IF k \in DOMAIN f THEN [f EXCEPT ![k] = v] ELSE f @@ (k :> v)

InitSystem ==
    /\ now = StartNow
    /\ ticks = 0
    /\ ncalls = 0
    /\ lumi_memory \in [Users -> {NoRow} \cup {StoredRow(m) : m \in MoodsStored}]
    /\ mood_cache = <<>>
    /\ call = [c \in Callers |-> Idle]
    /\ ret = [c \in Callers |-> NoResult]
    /\ pipeline_runs = <<>>
    /\ score_computes = <<>>
    /\ generated = NoResult
    /\ chat = Idle
    /\ chat_ret = NoResult
    /\ nchats = 0
    /\ task = [u \in Users |-> <<>>]
    /\ conversationHistory = [u \in Users |-> <<>>]
    /\ told = [u \in Users |-> {}]
    /\ request_history = <<>>
    /\ model_requests = <<>>

Init ==
    /\ InitSystem
    /\ snapshot = ZeroSnapshot
    /\ scored = Unscored

(***************************************************************************)
(* The clock                                                               *)
(***************************************************************************)
Tick(d) ==
    /\ ticks < MaxTicks
    /\ now' = now + d
    /\ ticks' = ticks + 1
    /\ UNCHANGED <<ncalls, lumi_memory, mood_cache, call, ret,
                   pipeline_runs, score_computes, snapshot, scored,
                   generated, chatvars, enginevars>>

(***************************************************************************)
(* MoodDetectorService.detect_current_mood                                 *)
(***************************************************************************)
\* lines 35-41: indicators, rule scores and primary mood of the snapshot
DetectScored(ctx, t) ==
    LET mood_indicators == calculate_mood_indicators(ctx, HourOf(t))
        mood_scores == apply_detection_rules(mood_indicators)
        primary == determine_primary_mood(mood_scores)
    IN  [current_mood |-> primary.mood,
         confidence   |-> primary.confidence,
         mood_scores  |-> mood_scores,
         indicators   |-> mood_indicators]

\* lines 52-60: the dict returned on the computed path
DetectResult(s, transition) ==
    [current_mood    |-> s.current_mood,
     confidence      |-> s.confidence,
     mood_scores     |-> s.mood_scores,
     indicators      |-> s.indicators,
     transition      |-> transition,
     insights        |-> generate_mood_insights(s.current_mood, s.indicators, transition),
     recommendations |-> generate_mood_recommendations(s.current_mood, s.indicators)]

\* the request enters detect_current_mood; the synchronous part of the
\* pipeline runs up to the first database await
DetectCall(c, u, snap) ==
    /\ MayStart(c)
    /\ ncalls < MaxCalls
    /\ ncalls' = ncalls + 1
    /\ call' = [call EXCEPT ![c] =
                  [op |-> "detect", pc |-> "read", user |-> u,
                   ctx |-> [snap EXCEPT !.lumi_memory = lumi_memory[u]],
                   scored |-> DetectScored(snap, now)]]
    /\ pipeline_runs' = Incr(pipeline_runs, <<u, AbsMinute(now)>>)
    /\ UNCHANGED <<now, ticks, lumi_memory, mood_cache, ret, score_computes,
                   snapshot, scored,
                   generated, chatvars, enginevars>>

\* _analyze_mood_transition: the SELECT of the user's row; read_ok = FALSE is
\* a failed acquire or query, caught at line 411
DetectRead(c, read_ok) ==
    /\ call[c].op = "detect"
    /\ call[c].pc = "read"
    /\ LET row == lumi_memory[call[c].user]
           transition == IF read_ok
                         THEN TransitionFrom(row, call[c].scored.current_mood, now)
                         ELSE NoTransition
       IN  call' = [call EXCEPT ![c] =
                      [op |-> "detect", pc |-> "write", user |-> call[c].user,
                       ctx |-> call[c].ctx,
                       scored |-> call[c].scored,
                       previous |-> IF ~read_ok THEN [read |-> "failed"]
                                    ELSE IF row.present
                                    THEN [read |-> "row", mood |-> row.currentMood]
                                    ELSE [read |-> "none"],
                       transition |-> transition]]
    /\ UNCHANGED <<now, ticks, ncalls, lumi_memory, mood_cache, ret,
                   pipeline_runs, score_computes, snapshot, scored,
                   generated, chatvars, enginevars>>

\* mutation of DetectWrite: a failed upsert reaches the handler of line 62
DetectWriteFailureToDefault(c, write_ok) ==
    /\ call[c].op = "detect"
    /\ call[c].pc = "write"
    /\ LET u == call[c].user
           memory_data == [current_mood      |-> call[c].scored.current_mood,
                           contextual_memory |-> "mood_data"]
       IN  lumi_memory' = IF write_ok
                          THEN [lumi_memory EXCEPT ![u] = UpsertLumiMemory(@, memory_data)]
                          ELSE lumi_memory
    /\ ret' = [ret EXCEPT ![c] =
                 [op |-> "detect", user |-> call[c].user, ctx |-> call[c].ctx,
                  previous |-> call[c].previous,
                  persisted |-> write_ok, write_failed |-> ~write_ok,
                  raised |-> ~write_ok,
                  result |-> IF write_ok
                             THEN DetectResult(call[c].scored, call[c].transition)
                             ELSE get_default_mood_detection]]
    /\ call' = [call EXCEPT ![c] = Idle]
    /\ UNCHANGED <<now, ticks, ncalls, mood_cache, pipeline_runs, score_computes,
                   snapshot, scored,
                   generated, chatvars, enginevars>>

\* _update_mood_history and the return; write_ok = FALSE is a failed upsert,
\* swallowed at line 516 (or inside update_lumi_memory)
DetectWrite(c, write_ok) ==
    /\ call[c].op = "detect"
    /\ call[c].pc = "write"
    /\ LET u == call[c].user
           memory_data == [current_mood      |-> call[c].scored.current_mood,
                           contextual_memory |-> "mood_data"]
       IN  lumi_memory' = IF write_ok
                          THEN [lumi_memory EXCEPT ![u] = UpsertLumiMemory(@, memory_data)]
                          ELSE lumi_memory
    /\ ret' = [ret EXCEPT ![c] =
                 [op |-> "detect", user |-> call[c].user, ctx |-> call[c].ctx,
                  previous |-> call[c].previous,
                  persisted |-> write_ok, write_failed |-> ~write_ok,
                  raised |-> FALSE,
                  result |-> DetectResult(call[c].scored, call[c].transition)]]
    /\ call' = [call EXCEPT ![c] = Idle]
    /\ UNCHANGED <<now, ticks, ncalls, mood_cache, pipeline_runs, score_computes,
                   snapshot, scored,
                   generated, chatvars, enginevars>>

\* an exception inside the try block (lines 62-64): the default result
DetectRaise(c) ==
    /\ call[c].op = "detect"
    /\ ret' = [ret EXCEPT ![c] =
                 [op |-> "detect", user |-> call[c].user, ctx |-> call[c].ctx,
                  previous |-> [read |-> "unknown"],
                  persisted |-> FALSE, write_failed |-> FALSE,
                  raised |-> TRUE,
                  result |-> get_default_mood_detection]]
    /\ call' = [call EXCEPT ![c] = Idle]
    /\ UNCHANGED <<now, ticks, ncalls, lumi_memory, mood_cache, pipeline_runs,
                   score_computes, snapshot, scored,
                   generated, chatvars, enginevars>>

(***************************************************************************)
(* MoodDetectorService.analyze_mood_history                                *)
(***************************************************************************)
AnalyzeMoodHistory(c, u, read_ok) ==
    /\ MayStart(c)
    /\ ncalls < MaxCalls
    /\ ncalls' = ncalls + 1
    /\ LET mood_history == MoodHistoryRows(lumi_memory[u])
       IN  ret' = [ret EXCEPT ![c] =
                     [op |-> "history", user |-> u, samples |-> Len(mood_history),
                      read_ok |-> read_ok,
                      result |-> analyze_mood_history_result(mood_history, read_ok)]]
    /\ UNCHANGED <<now, ticks, lumi_memory, mood_cache, call, pipeline_runs,
                   score_computes, snapshot, scored,
                   generated, chatvars, enginevars>>

(***************************************************************************)
(* PersonalityEngine.analyze_user_mood                                     *)
(***************************************************************************)
\* a chat request reaches generate_response with its fetched user_context
AnalyzeCall(c, u, snap) ==
    /\ MayStart(c)
    /\ ncalls < MaxCalls
    /\ ncalls' = ncalls + 1
    /\ call' = [call EXCEPT ![c] =
                  [op |-> "analyze", pc |-> "queued", user |-> u,
                   ctx |-> IF u \in Users
                           THEN [snap EXCEPT !.lumi_memory = lumi_memory[u]]
                           ELSE snap,
                   overlapped |-> \E o \in Callers : call[o].op = "analyze"]]
    /\ UNCHANGED <<now, ticks, lumi_memory, mood_cache, ret, pipeline_runs,
                   score_computes, snapshot, scored,
                   generated, chatvars, enginevars>>

\* the body of analyze_user_mood.  Its only await is on _calculate_mood_scores,
\* a coroutine without a suspension point, so the body runs in one step of
\* the event loop.
AnalyzeRun(c) ==
    /\ call[c].op = "analyze"
    /\ LET u == call[c].user
           cache_key == CacheKey(u, now)
           cached == cache_key \in DOMAIN mood_cache
           hit == cached /\ CacheFresh(mood_cache[cache_key], now)
           mood_analysis == ComputeMoodAnalysis(call[c].ctx, HourOf(now))
       IN  IF u = NoUser
           THEN /\ ret' = [ret EXCEPT ![c] =
                             [op |-> "analyze", user |-> u, ctx |-> call[c].ctx,
                              at |-> now, path |-> "default",
                              overlapped |-> call[c].overlapped,
                              had_entry |-> FALSE, entry_timestamp |-> now,
                              result |-> get_default_mood]]
                /\ UNCHANGED <<mood_cache, score_computes>>
           ELSE IF hit
           THEN /\ ret' = [ret EXCEPT ![c] =
                             [op |-> "analyze", user |-> u, ctx |-> call[c].ctx,
                              at |-> now, path |-> "cached",
                              overlapped |-> call[c].overlapped,
                              had_entry |-> TRUE,
                              entry_timestamp |-> mood_cache[cache_key].timestamp,
                              result |-> mood_cache[cache_key].mood_analysis]]
                /\ UNCHANGED <<mood_cache, score_computes>>
           ELSE /\ ret' = [ret EXCEPT ![c] =
                             [op |-> "analyze", user |-> u, ctx |-> call[c].ctx,
                              at |-> now, path |-> "computed",
                              overlapped |-> call[c].overlapped,
                              had_entry |-> cached,
                              entry_timestamp |-> IF cached
                                                  THEN mood_cache[cache_key].timestamp
                                                  ELSE now,
                              result |-> mood_analysis]]
                /\ mood_cache' = Put(mood_cache, cache_key,
                                     [mood_analysis |-> mood_analysis, timestamp |-> now])
                /\ score_computes' = Incr(score_computes, <<u, AbsMinute(now)>>)
    /\ call' = [call EXCEPT ![c] = Idle]
    /\ UNCHANGED <<now, ticks, ncalls, lumi_memory, pipeline_runs, snapshot, scored,
                   generated, chatvars, enginevars>>

\* the detector never compares timestamps: only the minute and the hour of a
\* call matter to it, so its clock moves by seconds
NextDetect ==
    \/ Tick(20)
    \/ \E c \in Callers, u \in Users, snap \in ServiceSnapshots : DetectCall(c, u, snap)
    \/ \E c \in Callers, read_ok \in BOOLEAN : DetectRead(c, read_ok)
    \/ \E c \in Callers, write_ok \in BOOLEAN : DetectWrite(c, write_ok)
    \/ \E c \in Callers : DetectRaise(c)
    \/ \E c \in Callers, u \in Users, read_ok \in BOOLEAN : AnalyzeMoodHistory(c, u, read_ok)

NextAnalyze ==
    \/ \E d \in Jumps : Tick(d)
    \/ \E c \in Callers, u \in Users \cup {NoUser}, snap \in ServiceSnapshots :
          AnalyzeCall(c, u, snap)
    \/ \E c \in Callers : AnalyzeRun(c)

Next ==
    \/ NextDetect
    \/ NextAnalyze

Spec == Init /\ [][Next]_vars

\* the mood detector and its persistence alone
SpecDetect == Init /\ [][NextDetect]_vars

\* the personality engine and its cache alone
SpecAnalyze == Init /\ [][NextAnalyze]_vars


(***************************************************************************)
(* The scorers as pure functions of a snapshot and the hour                *)
(***************************************************************************)
InitScore ==
    /\ InitSystem
    /\ lumi_memory = [u \in Users |-> NoRow]
    /\ snapshot \in Snapshots
    /\ scored = Unscored

\* detect_current_mood's computed result for the snapshot, first classification
ScoreDetect ==
    /\ scored.detect = NoResult
    /\ scored' = [scored EXCEPT !.detect =
                    [op |-> "detect",
                     result |-> DetectResult(DetectScored(snapshot, now), NoTransition)]]
    /\ UNCHANGED <<sysvars, snapshot, generated, chatvars, enginevars>>

\* analyze_user_mood's computed result for the snapshot, empty cache
ScoreAnalyze ==
    /\ scored.analyze = NoResult
    /\ scored' = [scored EXCEPT !.analyze =
                    [op |-> "analyze",
                     result |-> ComputeMoodAnalysis(snapshot, HourOf(now))]]
    /\ UNCHANGED <<sysvars, snapshot, generated, chatvars, enginevars>>

\* the hour passes before the classification
ScoreTick ==
    /\ ticks = 0
    /\ scored = Unscored
    /\ now' = now + 20
    /\ ticks' = ticks + 1
    /\ UNCHANGED <<ncalls, lumi_memory, mood_cache, call, ret,
                   pipeline_runs, score_computes, snapshot, scored,
                   generated, chatvars, enginevars>>

NextScore ==
    \/ ScoreDetect
    \/ ScoreAnalyze
    \/ ScoreTick

SpecScore == InitScore /\ [][NextScore]_vars

(***************************************************************************)
(* Properties                                                              *)
(***************************************************************************)
Returned(op) == {c \in Callers : ret[c].op = op}

ResultInUnit(r) ==
    /\ InUnit(r.confidence)
    /\ \A m \in DOMAIN r.mood_scores : InUnit(r.mood_scores[m])

\* C1: every result of detect_current_mood and of analyze_user_mood has its
\* confidence in [0,1] and every entry of mood_scores in [0,1].
C1_ConfidenceAndScoresInUnit ==
    /\ scored.detect.op = "detect" => ResultInUnit(scored.detect.result)
    /\ scored.analyze.op = "analyze" => ResultInUnit(scored.analyze.result)
    /\ \A c \in Returned("detect") \cup Returned("analyze") : ResultInUnit(ret[c].result)

\* both scorers have classified a snapshot with overdue work, and the
\* personality engine's normalised scores include one strictly inside (0,1)
C1_Witness ==
    /\ scored.detect.op = "detect"
    /\ scored.analyze.op = "analyze"
    /\ snapshot.overdue_tasks >= 2
    /\ snapshot.current_streak = 0
    /\ scored.analyze.result.confidence = One
    /\ \E m \in Moods : /\ RatLT(Zero, scored.analyze.result.mood_scores[m])
                        /\ RatLT(scored.analyze.result.mood_scores[m], One)

SameSnapshot(a, b) == a.ctx = b.ctx

\* what a detect_current_mood result says about the mood (its transition
\* carries a timestamp and is left out)
Classification(r) ==
    [current_mood |-> r.current_mood, confidence |-> r.confidence,
     mood_scores |-> r.mood_scores, indicators |-> r.indicators]

\* C2: two classifications of an identical snapshot (same user_context, same
\* persisted previous mood) yield identical results whatever the wall-clock
\* time at which each runs.
C2_ClockIndependent ==
    /\ \A c1, c2 \in Returned("detect") :
          (/\ ~ret[c1].raised /\ ~ret[c2].raised
           /\ SameSnapshot(ret[c1], ret[c2])
           /\ ret[c1].previous = ret[c2].previous)
          => Classification(ret[c1].result) = Classification(ret[c2].result)
    /\ \A c1, c2 \in Returned("analyze") :
          (/\ ret[c1].path = "computed" /\ ret[c2].path = "computed"
           /\ SameSnapshot(ret[c1], ret[c2]))
          => ret[c1].result = ret[c2].result

WithOverdue(snap, od) == [snap EXCEPT !.overdue_tasks = od]

\* C3: of two snapshots that differ only in overdue_tasks, the one with more
\* overdue tasks has a final "struggling" score at least as large, in both
\* classifiers.
C3_StrugglingMonotone ==
    /\ scored.analyze.op = "analyze" =>
          \A od \in 0..MaxOverdue :
             od >= snapshot.overdue_tasks =>
                RatLE(scored.analyze.result.mood_scores["struggling"],
                      ComputeMoodAnalysis(WithOverdue(snapshot, od),
                                          HourOf(now)).mood_scores["struggling"])
    /\ scored.detect.op = "detect" =>
          \A od \in 0..MaxOverdue :
             od >= snapshot.overdue_tasks =>
                RatLE(scored.detect.result.mood_scores["struggling"],
                      DetectScored(WithOverdue(snapshot, od), now).mood_scores["struggling"])

\* a classified snapshot without overdue tasks whose normalised struggling
\* score is positive and strictly below the one it has with MaxOverdue
C3_Witness ==
    /\ scored.analyze.op = "analyze"
    /\ scored.detect.op = "detect"
    /\ snapshot.overdue_tasks = 0
    /\ RatLT(Zero, scored.analyze.result.mood_scores["struggling"])
    /\ RatLT(scored.analyze.result.mood_scores["struggling"],
             ComputeMoodAnalysis(WithOverdue(snapshot, MaxOverdue),
                                 HourOf(now)).mood_scores["struggling"])

\* C4: detect_current_mood returns transition = null whenever no previously
\* persisted mood is available: no lumi_memory row, or the read failed.
C4_NoPriorMoodNoTransition ==
    \A c \in Returned("detect") :
       ret[c].previous.read # "row" => ~ret[c].result.transition.present

\* one computed classification found no row, another could not read it
C4_Witness ==
    \E c1, c2 \in Returned("detect") :
       /\ ~ret[c1].raised /\ ret[c1].previous.read = "none"
       /\ ~ret[c2].raised /\ ret[c2].previous.read = "failed"

\* the transition _analyze_mood_transition returned for caller c
TransitionRule(previous, transition, current_mood) ==
    IF previous.mood = current_mood
    THEN ~transition.present
    ELSE /\ transition.present
         /\ transition.from_mood = previous.mood
         /\ transition.to_mood = current_mood
         /\ transition.confidence = TransitionConfidence

\* C5: when the read returns a persisted mood, _analyze_mood_transition
\* returns null if it equals the new mood and otherwise a transition from the
\* persisted mood to the new one with confidence 0.7; and a call changes the
\* user's row only after it has read the previous mood.
C5_TransitionFromPersisted ==
    /\ [](\A c \in Callers :
             /\ (call[c].op = "detect" /\ call[c].pc = "write"
                   /\ call[c].previous.read = "row")
                => TransitionRule(call[c].previous, call[c].transition,
                                  call[c].scored.current_mood)
             /\ (ret[c].op = "detect" /\ ~ret[c].raised /\ ret[c].previous.read = "row")
                => TransitionRule(ret[c].previous, ret[c].result.transition,
                                  ret[c].result.current_mood))
    /\ [][\A c \in Callers :
             (call[c].op = "detect" /\ call'[c] = Idle /\ lumi_memory' # lumi_memory)
             => (call[c].pc = "write" /\ "previous" \in DOMAIN call[c])]_vars

\* a classification that read a different persisted mood and reported the
\* transition, and one that read the mood it then selected
C5_Witness ==
    \E c1, c2 \in Returned("detect") :
       /\ ~ret[c1].raised /\ ret[c1].previous.read = "row"
       /\ ret[c1].previous.mood = "motivated"
       /\ ret[c1].result.transition.present
       /\ ret[c1].persisted
       /\ ~ret[c2].raised /\ ret[c2].previous.read = "row"
       /\ ret[c2].previous.mood = ret[c2].result.current_mood

\* C6: two detect_current_mood calls for the same user within the same time
\* bucket run the classification pipeline at most once.
C6_PipelineOncePerBucket ==
    \A k \in DOMAIN pipeline_runs : pipeline_runs[k] <= 1

\* the cached entry (if any) the call found was younger than the TTL
Unexpired(r) == r.had_entry /\ r.at - r.entry_timestamp < CacheTTL

\* C7: analyze_user_mood returns the cached analysis when mood_cache holds an
\* unexpired entry for (user_id, minute bucket), and otherwise computes the
\* analysis, stores it under that key with the current timestamp and returns it.
C7_CachedOrComputed ==
    \A c \in Returned("analyze") :
       ret[c].user \in Users =>
          IF Unexpired(ret[c])
          THEN ret[c].path = "cached"
          ELSE /\ ret[c].path = "computed"
               /\ ret[c].result = ComputeMoodAnalysis(ret[c].ctx, HourOf(ret[c].at))

\* C8: analyze_user_mood never returns a cached entry stored more than 30
\* minutes before the current time, even when the cache key matches.
C8_NoStaleHit ==
    \A c \in Returned("analyze") :
       ret[c].path = "cached" => ret[c].at - ret[c].entry_timestamp <= CacheTTL

\* C9: for every interleaving of concurrent analyze_user_mood calls for the
\* same user within the same minute, the mood scores are computed at most once.
C9_SingleComputePerBucket ==
    \A k \in DOMAIN score_computes : score_computes[k] <= 1

\* two requests of one user were in flight together in one minute; one
\* computed, the other was served from the cache
C9_Witness ==
    \E c1, c2 \in Returned("analyze") :
       /\ ret[c1].user = ret[c2].user
       /\ AbsMinute(ret[c1].at) = AbsMinute(ret[c2].at)
       /\ ret[c1].path = "computed"
       /\ ret[c2].path = "cached"
       /\ ret[c1].overlapped \/ ret[c2].overlapped

\* C10: analyze_mood_history for a user with fewer than 5 stored samples
\* returns the "insufficient data" result, not an exception-derived error and
\* not a stability score.
C10_InsufficientBelowFive ==
    \A c \in Returned("history") :
       (ret[c].read_ok /\ ret[c].samples < 5)
       => (ret[c].result.kind = "insufficient" /\ ~ret[c].result.has_stability_score)

\* the scenario of C11: 8 tasks, 1 completed, 4 overdue, no streak, no
\* completed pomodoro today
ScenarioStruggling(s) ==
    /\ s.total_tasks = 8 /\ s.completed_tasks = 1
    /\ s.overdue_tasks = 4
    /\ s.current_streak = 0
    /\ CompletedOf(s.today_pomodoros) = <<>>

\* C11: for the snapshot {total_tasks=8, completed_tasks=1, overdue_tasks=4,
\* current_streak=0, no completed pomodoros today} detect_current_mood returns
\* current_mood "struggling" with confidence > 0.5 and a non-empty
\* recommendations list.
C11_ScenarioStruggling ==
    (scored.detect.op = "detect" /\ ScenarioStruggling(snapshot))
    => /\ scored.detect.result.current_mood = "struggling"
       /\ RatLT(R(1, 2), scored.detect.result.confidence)
       /\ scored.detect.result.recommendations # <<>>

\* the zero snapshot of C12: no tasks, no recent activity, no streak, no
\* pomodoros
ScenarioZero(s) ==
    /\ s.total_tasks = 0 /\ s.overdue_tasks = 0 /\ s.pending_tasks = 0
    /\ s.recent_activity = <<>>
    /\ s.current_streak = 0
    /\ s.today_pomodoros = <<>>

\* C12: for an empty/zero snapshot both detect_current_mood and
\* analyze_user_mood return primary mood "neutral" (or "returning") with
\* confidence <= 0.5.
C12_ZeroSnapshotNeutral ==
    ScenarioZero(snapshot)
    => /\ scored.detect.op = "detect"
          => /\ scored.detect.result.current_mood \in {"neutral", "returning"}
             /\ RatLE(scored.detect.result.confidence, R(1, 2))
       /\ scored.analyze.op = "analyze"
          => /\ scored.analyze.result.detected_mood \in {"neutral", "returning"}
             /\ RatLE(scored.analyze.result.confidence, R(1, 2))

\* the closed set of mood names of the design
ClosedMoodSet == Moods \cup {"neutral"}

\* C13: the mood name returned by every classification of
\* detect_current_mood, its default result included, is a member of the
\* closed set {motivated, struggling, focused, overwhelmed, celebrating,
\* returning, neutral}.
C13_MoodInClosedSet ==
    \A c \in Returned("detect") : ret[c].result.current_mood \in ClosedMoodSet

\* C14: when persisting the mood snapshot fails, detect_current_mood still
\* returns the computed classification, the same current_mood, confidence,
\* indicators and transition as on a successful write, not the default result.
C14_WriteFailureKeepsResult ==
    [][\A c \in Callers :
         (call[c].op = "detect" /\ call[c].pc = "write" /\ call'[c] = Idle
            /\ ret'[c].write_failed)
         => /\ ~ret'[c].raised
            /\ lumi_memory' = lumi_memory
            /\ ret'[c].result = DetectResult(call[c].scored, call[c].transition)]_vars

\* a classification whose upsert failed returned the transition it had
\* computed from the row it read, and the row is still the one it read
C14_Witness ==
    \E c \in Returned("detect") :
       /\ ret[c].write_failed
       /\ ret[c].previous.read = "row"
       /\ ret[c].result.transition.present
       /\ ret[c].result.indicators # <<>>
       /\ lumi_memory[ret[c].user].currentMood = ret[c].previous.mood

\* the fields of the result object of detect_current_mood
ResultFields ==
    {"current_mood", "confidence", "mood_scores", "indicators", "transition",
     "insights", "recommendations"}

\* C15: detect_current_mood never propagates an exception: whatever fails
\* inside it, every call returns a result object with exactly the fields
\* current_mood, confidence, mood_scores, indicators, transition, insights,
\* recommendations.
C15_AlwaysResultObject ==
    \A c \in Returned("detect") : DOMAIN ret[c].result = ResultFields

\* one call ended in the exception handler, one lost its read and its write,
\* and both returned
C15_Witness ==
    \E c1, c2 \in Returned("detect") :
       /\ ret[c1].raised
       /\ ~ret[c2].raised /\ ret[c2].previous.read = "failed" /\ ret[c2].write_failed

(***************************************************************************)
(* The insight and recommendation generators as pure functions             *)
(***************************************************************************)
\* the mood names the generators can be handed
GeneratorMoods == Moods \cup {"encouraging"}

\* the snapshots whose indicator lists the generators are handed
GeneratorSnapshots ==
    {s \in Snapshots : /\ s.pending_tasks = 0 /\ s.recent_activity = <<>>
                       /\ s.peak_hour = NoPeak /\ ~s.lumi_memory.present}

InitGenerate ==
    /\ InitSystem
    /\ lumi_memory = [u \in Users |-> NoRow]
    /\ snapshot \in GeneratorSnapshots
    /\ scored = Unscored

\* _generate_mood_insights and _generate_mood_recommendations for a mood, the
\* indicators of the snapshot and the transition from a previous mood (if any)
Generate(mood, previous_mood_data) ==
    /\ generated = NoResult
    /\ LET indicators == calculate_mood_indicators(snapshot, HourOf(now))
           transition == TransitionFrom(previous_mood_data, mood, now)
       IN  generated' =
             [op |-> "generate", mood |-> mood, indicators |-> indicators,
              transition |-> transition,
              insights |-> generate_mood_insights(mood, indicators, transition),
              recommendations |-> generate_mood_recommendations(mood, indicators)]
    /\ UNCHANGED <<sysvars, snapshot, scored, chatvars, enginevars>>

NextGenerate ==
    \E mood \in GeneratorMoods,
       previous_mood_data \in {NoRow} \cup {StoredRow(m) : m \in MoodsStored} :
       Generate(mood, previous_mood_data)

SpecGenerate == InitGenerate /\ [][NextGenerate]_vars

\* C17: _generate_mood_insights returns at most 3 insight strings and
\* _generate_mood_recommendations at most 3 recommendation strings, for every
\* mood, every indicator list and every transition (present or null).
C17_AtMostThree ==
    generated.op = "generate"
    => /\ Len(generated.insights) <= 3
       /\ Len(generated.recommendations) <= 3


(***************************************************************************)
(* api/chat_handler.py: POST /api/chat                                     *)
(***************************************************************************)
\* In the model a user's name stands for the UUID string of that user, so the
\* strings uuid.UUID accepts are the well-formed UUIDs
UUIDs == Users

\* the user_id values of the request body, as JSON values: the UUID of a
\* user, the number 123, the string "123" and the string "0"
RawUserIds ==
    {[json |-> "string", text |-> u] : u \in Users}
    \cup {[json |-> "number", text |-> "123"],
          [json |-> "string", text |-> "123"],
          [json |-> "string", text |-> "0"]}

\* the messages of the request body:
\*   "name"   'meu nome é João'
\*   "task"   'Preciso estudar Python hoje às 18:30'
\*   "agenda" 'Quais são minhas tarefas pendentes?'
\*   "hello"  'Olá'
\*   "blank"  '   '
Messages == {"name", "task", "agenda", "hello", "blank"}

\* the context of the request body: the key left out, null, a string, {} and
\* a dict with data
RawContexts == {"absent", "null", "string", "empty_dict", "dict"}

\* ChatRequest.convert_user_id_to_string: str(v)
convert_user_id_to_string(v) == v.text

\* ChatRequest.validate_message: FALSE is the ValueError of line 40
validate_message(v) == v # "blank"

\* ChatRequest.normalize_context (an absent key takes the default None
\* without running the validator)
normalize_context(v) ==
    CASE v \in {"absent", "null"} -> [type |-> "None"]
      [] v = "string"             -> [type |-> "string_format", legacy_context |-> v]
      [] v = "empty_dict"         -> [type |-> "dict", keys |-> 0]
      [] v = "dict"               -> [type |-> "dict", keys |-> 1]

\* lines 85-94: "ok", or the detail of the HTTPException(400)
ValidateUserId(user_id) ==
    IF user_id \in {"None", "null", "undefined", "", "0"}
    THEN "user_id e obrigatorio e deve ser um UUID valido"
    ELSE IF user_id \notin UUIDs
    THEN "user_id deve ser um UUID valido"
    ELSE "ok"


\* the methods DatabaseManager defines (core/database_manager.py)
DatabaseManagerMethods ==
    {"initialize", "close", "get_connection", "fetch_user_context",
     "update_lumi_memory", "create_task", "get_productivity_insights"}

\* db_manager.execute_query(...): FALSE is the AttributeError of a call to a
\* method the class does not define
ExecuteQueryRuns == "execute_query" \in DatabaseManagerMethods

\* ConversationMemory.get_lumi_memory: the user's memory, or None when the
\* query raised (lines 88-90)
get_lumi_memory(history, user_id) ==
    IF ExecuteQueryRuns
    THEN [present |-> TRUE, conversationHistory |-> history[user_id]]
    ELSE [present |-> FALSE]

\* the name a message states (the patterns of lines 282-287), title-cased
NoName == "None"
NameIn(message) == IF message = "name" THEN "Joao" ELSE NoName

RECURSIVE FirstName(_)
FirstName(conversation_history) ==
    IF conversation_history = <<>> THEN NoName
    ELSE IF NameIn(Head(conversation_history).userMessage) # NoName
    THEN NameIn(Head(conversation_history).userMessage)
    ELSE FirstName(Tail(conversation_history))

\* ConversationMemory.get_user_name
get_user_name(history, user_id) ==
    LET memory == get_lumi_memory(history, user_id)
    IN  IF ~memory.present THEN NoName
        ELSE FirstName(memory.conversationHistory)

\* ConversationMemory.get_conversation_context: the last 5 messages
get_conversation_context(history, user_id) ==
    LET memory == get_lumi_memory(history, user_id)
        h == IF memory.present THEN memory.conversationHistory ELSE <<>>
    IN  IF Len(h) <= 5 THEN h ELSE SubSeq(h, Len(h) - 4, Len(h))

\* ConversationMemory.save_conversation: the history after the call; the
\* UPDATE of _update_lumi_memory is reached only with a memory at hand
save_conversation(history, user_id, user_message, lumi_response, lumi_mood) ==
    LET current_memory == get_lumi_memory(history, user_id)
        conversation_history ==
            IF current_memory.present THEN current_memory.conversationHistory
            ELSE <<>>
        new_conversation == [userMessage  |-> user_message,
                             lumiResponse |-> lumi_response,
                             mood         |-> lumi_mood]
        appended == Append(conversation_history, new_conversation)
        kept == IF Len(appended) > 50
                THEN SubSeq(appended, Len(appended) - 49, Len(appended))
                ELSE appended
    IN  IF get_lumi_memory(history, user_id).present
        THEN [history EXCEPT ![user_id] = kept]
        ELSE history

\* IntelligentTaskExtractor.extract_task_from_message on the messages above
NoTask == [present |-> FALSE]
extract_task_from_message(message) ==
    IF message = "task"
    THEN [present |-> TRUE, title |-> "Estudar Python", priority |-> "medium",
          estimated_pomodoros |-> 2, due_date |-> "None", time |-> "None"]
    ELSE NoTask

\* ContextAnalyzer._detect_intent on the messages above
detect_intent(message) ==
    CASE message = "name"   -> "get_suggestions"
      [] message = "task"   -> "create_task"
      [] message = "agenda" -> "delete_task"
      [] message = "hello"  -> "motivational_chat"

\* lines 202-208: the message contains one of pending_queries
IsPendingQuery(message) == message = "agenda"

\* DatabaseManager.create_task: the row of the INSERT
TaskRow(task_data) ==
    [title              |-> task_data.title,
     priority           |-> DictGet(task_data, "priority", "MEDIUM"),
     status             |-> DictGet(task_data, "status", "PENDING"),
     estimatedPomodoros |-> DictGet(task_data, "estimated_pomodoros", 1)]


\* mutation of ExceptionClasses: HTTPException passes `except Exception`
ExceptionClassesWithoutHTTPException ==
    {"Exception", "AttributeError", "KeyError", "ValidationError"}

\* the exception classes an `except Exception` clause catches
\* (fastapi.HTTPException derives from Exception)
ExceptionClasses ==
    {"Exception", "HTTPException", "AttributeError", "KeyError", "ValidationError"}

Raised(class) == [raised |-> TRUE, class |-> class]

Response(content, mood, personality_tone, actions, emotional_context) ==
    [raised |-> FALSE, content |-> content, mood |-> mood,
     personality_tone |-> personality_tone, actions |-> actions,
     emotional_context |-> emotional_context]

\* _handle_intelligent_task_creation: the response is the same whether or
\* not the INSERT succeeded, only task_id differs (lines 527-574)
handle_intelligent_task_creation(task_intent, task_id) ==
    Response("task_created", "motivated", "supportive",
             <<[type |-> "task_created", task_id |-> task_id,
                title |-> task_intent.title]>>,
             "intelligent_detection")

\* the rows the SELECT of _handle_pending_tasks_query returns
PendingRows(rows) == SelectSeq(rows, LAMBDA r : r.status = "pending")

\* _handle_pending_tasks_query (it never raises: lines 687-697)
handle_pending_tasks_query(rows) ==
    IF ~ExecuteQueryRuns
    THEN Response("technical_error", "apologetic", "helpful", <<>>, "technical_error")
    ELSE IF PendingRows(rows) = <<>>
    THEN Response("no_pending_tasks", "celebrating", "helpful",
                  <<[type |-> "tasks_listed", tasks |-> <<>>]>>,
                  "agenda_consultation")
    ELSE Response("tasks_listed", "focused", "helpful",
                  <<[type |-> "tasks_listed",
                     tasks |-> Take(PendingRows(rows), 5)]>>,
                  "agenda_consultation")

\* the fallback response of lines 239-249
FallbackResponse(user_name) ==
    Response(IF user_name # NoName THEN "fallback_greeting_by_name"
             ELSE "fallback_greeting",
             "encouraging", "friendly", <<>>, "fallback")

\* _ensure_complete_response and ChatResponse(**response_data)
ChatResponse(response) ==
    [status |-> 200, model |-> "ChatResponse",
     response |-> response.content, mood |-> response.mood,
     personality_tone |-> response.personality_tone,
     actions |-> response.actions,
     emotional_context |-> response.emotional_context]

\* the ChatResponse of the outer handler (lines 287-293)
UnexpectedErrorResponse ==
    [status |-> 200, model |-> "ChatResponse",
     response |-> "unexpected_error", mood |-> "apologetic",
     personality_tone |-> "supportive", actions |-> <<>>,
     emotional_context |-> "error_occurred"]

\* an HTTPException that leaves the handler
HTTPError(status_code, detail) ==
    [status |-> status_code, model |-> "HTTPException", detail |-> detail]


\* PersonalityEngine.analyze_user_mood as generate_response calls it: the
\* profile it returns and the cache it leaves
AnalyzeUserMood(cache, ctx, user_id, t) ==
    LET cache_key == CacheKey(user_id, t)
        hit == /\ cache_key \in DOMAIN cache
               /\ CacheFresh(cache[cache_key], t)
        mood_analysis == ComputeMoodAnalysis(ctx, HourOf(t))
    IN  IF hit
        THEN [profile |-> cache[cache_key].mood_analysis, cache |-> cache,
              computed |-> FALSE]
        ELSE [profile |-> mood_analysis,
              cache |-> Put(cache, cache_key,
                            [mood_analysis |-> mood_analysis, timestamp |-> t]),
              computed |-> TRUE]

\* AIEngine.generate_response: it never raises; a failed model call gives the
\* apologetic AIResponse of lines 209-219
generate_response(personality_profile, model_ok) ==
    IF model_ok
    THEN Response("ai_generated", personality_profile.detected_mood,
                  personality_profile.personality_tone, <<>>, "personality_profile")
    ELSE Response("ai_error", "neutral", "apologetic", <<>>, "error")


\* one more failed collaborator on the request's way
Failures(n, ok) == IF ok THEN n ELSE n + 1

\* the request body reaches the ChatRequest model (lines 26-56): a blank
\* message is answered 422 by the framework, any other request enters
\* chat_with_lumi with its user_id as a string and its context normalised
PostChat(user_id, message, context) ==
    /\ chat = Idle
    /\ nchats < MaxChats
    /\ nchats' = nchats + 1
    /\ LET request == [user_id |-> user_id, message |-> message,
                       context |-> context]
       IN  IF validate_message(message)
           THEN /\ chat' = [op |-> "chat", pc |-> "validate", body |-> request,
                            user_id |-> convert_user_id_to_string(user_id),
                            message |-> message,
                            context |-> normalize_context(context)]
                /\ chat_ret' = NoResult
           ELSE /\ chat' = Idle
                /\ chat_ret' = [op |-> "chat", body |-> request,
                                user_id |-> convert_user_id_to_string(user_id),
                                message |-> message,
                                answer |-> [status |-> 422,
                                            model |-> "RequestValidationError",
                                            detail |-> "Mensagem nao pode estar vazia"]]
    /\ UNCHANGED <<sysvars, snapshot, scored, generated, task,
                   conversationHistory, told, enginevars>>

\* lines 83-145: the user_id validation, the memory load and the context
\* fetch.  memory_ok = FALSE is a raising conversation memory, fetch_ok =
\* FALSE a raising fetch or a user_context with "error"; both fall back.
\* The handler reads request.context nowhere.
ChatPrepare(memory_ok, fetch_ok, snap) ==
    /\ chat.op = "chat"
    /\ chat.pc = "validate"
    /\ IF ValidateUserId(chat.user_id) # "ok"
       THEN /\ chat' = Idle
            /\ chat_ret' = [op |-> "chat", body |-> chat.body,
                            user_id |-> chat.user_id, message |-> chat.message,
                            answer |-> HTTPError(400, ValidateUserId(chat.user_id))]
       ELSE /\ chat' = [op |-> "chat", pc |-> "task",
                        user_id |-> chat.user_id, message |-> chat.message,
                        user_name |-> IF memory_ok
                                      THEN get_user_name(conversationHistory,
                                                         chat.user_id)
                                      ELSE NoName,
                        user_context |-> IF fetch_ok
                                         THEN [snap EXCEPT !.lumi_memory =
                                                 lumi_memory[chat.user_id]]
                                         ELSE ZeroSnapshot,
                        failures |-> Failures(Failures(0, memory_ok), fetch_ok),
                        caught |-> "None"]
            /\ UNCHANGED chat_ret
    /\ UNCHANGED <<sysvars, snapshot, scored, generated, nchats, task,
                   conversationHistory, told, enginevars>>

\* a request answered with a ChatResponse or an error
Answered(answer) ==
    [op |-> "chat", user_id |-> chat.user_id, message |-> chat.message,
     failures |-> answer.failures, caught |-> chat.caught,
     answer |-> answer.answer]

\* lines 148-175: the intelligent task detection.  An exception anywhere in
\* the block (the extractor, save_conversation, the ChatResponse constructor)
\* is logged at line 175 and the request goes on to the general flow; a
\* failed INSERT is swallowed by _handle_intelligent_task_creation.
ChatTaskDetection(extraction_ok, create_ok, save_ok, construct_ok) ==
    /\ chat.op = "chat"
    /\ chat.pc = "task"
    /\ LET u == chat.user_id
           task_intent == extract_task_from_message(chat.message)
           rows == IF create_ok
                   THEN Append(task[u],
                               TaskRow([title |-> task_intent.title,
                                        priority |-> task_intent.priority,
                                        estimated_pomodoros |->
                                            task_intent.estimated_pomodoros,
                                        status |-> "pending"]))
                   ELSE task[u]
           response == handle_intelligent_task_creation(
                           task_intent, IF create_ok THEN Len(rows) ELSE 0)
       IN  IF ~extraction_ok \/ ~task_intent.present
           THEN /\ chat' = [chat EXCEPT !.pc = "analyze",
                                        !.failures = Failures(@, extraction_ok)]
                /\ UNCHANGED <<chat_ret, task, conversationHistory, told>>
           ELSE /\ task' = [task EXCEPT ![u] = rows]
                /\ conversationHistory' =
                     IF save_ok
                     THEN save_conversation(conversationHistory, u, chat.message,
                                            response.content, "motivated")
                     ELSE conversationHistory
                /\ IF save_ok /\ construct_ok
                   THEN /\ chat' = Idle
                        /\ chat_ret' = Answered(
                             [answer |-> ChatResponse(response),
                              failures |-> Failures(chat.failures, create_ok)])
                        /\ told' = IF create_ok /\ chat.failures = 0
                                   THEN [told EXCEPT ![u] =
                                           @ \cup {[kind |-> "task",
                                                    value |-> task_intent.title]}]
                                   ELSE told
                   ELSE /\ chat' = [chat EXCEPT
                                      !.pc = "analyze",
                                      !.failures = Failures(chat.failures, create_ok) + 1]
                        /\ UNCHANGED <<chat_ret, told>>
    /\ UNCHANGED <<sysvars, snapshot, scored, generated, nchats, enginevars>>


\* lines 178-195: the context analysis and the mood detection, each with
\* its fallback.  detect_current_mood runs its pipeline and upserts the
\* user's row; write_ok = FALSE is an upsert that failed inside it.
ChatAnalyze(analysis_ok, mood_ok, write_ok) ==
    /\ chat.op = "chat"
    /\ chat.pc = "analyze"
    /\ LET u == chat.user_id
           s == DetectScored(chat.user_context, now)
       IN  /\ chat' = [op |-> "chat", pc |-> "respond",
                       user_id |-> u, message |-> chat.message,
                       user_name |-> chat.user_name,
                       user_context |-> chat.user_context,
                       intent |-> IF analysis_ok THEN detect_intent(chat.message)
                                  ELSE "general_conversation",
                       failures |-> Failures(Failures(chat.failures, analysis_ok),
                                             mood_ok),
                       caught |-> chat.caught]
           /\ lumi_memory' =
                IF mood_ok /\ write_ok
                THEN [lumi_memory EXCEPT ![u] =
                        UpsertLumiMemory(@, [current_mood |-> s.current_mood,
                                             contextual_memory |-> "mood_data"])]
                ELSE lumi_memory
           /\ pipeline_runs' = IF mood_ok
                               THEN Incr(pipeline_runs, <<u, AbsMinute(now)>>)
                               ELSE pipeline_runs
    /\ UNCHANGED <<now, ticks, ncalls, mood_cache, call, ret, score_computes,
                   snapshot, scored, generated, chat_ret, nchats, task,
                   conversationHistory, told, enginevars>>

\* _handle_task_intent for the create_task intent (lines 310-360): what it
\* returns or raises.  service_ok = FALSE is a task intelligence service
\* that answered with its own fallback dicts, which lack the keys of lines
\* 355-356.
handle_task_intent(service_ok, task_id) ==
    IF task_id = 0 THEN Raised("HTTPException")
    ELSE IF ~service_ok THEN Raised("KeyError")
    ELSE Response("task_intent_created", "motivated", "supportive",
                  <<[type |-> "task_created", task_id |-> task_id,
                     title |-> "python hoje as 18:30"]>>,
                  "task_creation")

\* lines 198-249: the response, by the pending-tasks query, the intent
\* handlers or the AI engine; an exception of a class `except Exception`
\* catches gives the fallback response, any other leaves the handler
ChatRespond(generation_ok, create_ok) ==
    /\ chat.op = "chat"
    /\ chat.pc = "respond"
    /\ LET u == chat.user_id
           pending == IsPendingQuery(chat.message)
           task_intent_branch == ~pending /\ chat.intent = "create_task"
           suggestions_branch == ~pending /\ chat.intent = "get_suggestions"
           ai_branch == ~pending /\ ~task_intent_branch /\ ~suggestions_branch
           analysis == AnalyzeUserMood(mood_cache, chat.user_context, u, now)
           rows == IF task_intent_branch /\ create_ok
                   THEN Append(task[u],
                               TaskRow([title |-> "python hoje as 18:30",
                                        priority |-> "medium",
                                        estimated_pomodoros |-> 1]))
                   ELSE task[u]
           generated_response ==
               IF pending THEN handle_pending_tasks_query(task[u])
               ELSE IF task_intent_branch
               THEN handle_task_intent(generation_ok,
                                       IF create_ok THEN Len(rows) ELSE 0)
               ELSE IF suggestions_branch
               THEN IF generation_ok
                    THEN Response("suggestions", "helpful", "advisory", <<>>,
                                  "suggestions_provided")
                    ELSE Raised("Exception")
               ELSE generate_response(analysis.profile, generation_ok)
           failures == IF pending THEN chat.failures
                       ELSE IF task_intent_branch
                       THEN Failures(Failures(chat.failures, generation_ok), create_ok)
                       ELSE Failures(chat.failures, generation_ok)
       IN  /\ task' = [task EXCEPT ![u] = rows]
           /\ mood_cache' = IF ai_branch THEN analysis.cache ELSE mood_cache
           /\ score_computes' = IF ai_branch /\ analysis.computed
                                THEN Incr(score_computes, <<u, AbsMinute(now)>>)
                                ELSE score_computes
           /\ IF generated_response.raised
                 /\ generated_response.class \notin ExceptionClasses
              THEN /\ chat' = Idle
                   /\ chat_ret' = Answered(
                        [answer |-> HTTPError(500, "Erro ao criar tarefa"),
                         failures |-> failures])
              ELSE /\ chat' = [op |-> "chat", pc |-> "finish",
                               user_id |-> u, message |-> chat.message,
                               intent |-> chat.intent,
                               response |-> IF generated_response.raised
                                            THEN FallbackResponse(chat.user_name)
                                            ELSE generated_response,
                               failures |-> failures,
                               caught |-> IF generated_response.raised
                                          THEN generated_response.class
                                          ELSE chat.caught]
                   /\ UNCHANGED chat_ret
    /\ UNCHANGED <<now, ticks, ncalls, lumi_memory, call, ret, pipeline_runs,
                   snapshot, scored, generated, nchats, conversationHistory, told, enginevars>>

\* lines 252-293: save_conversation and _update_interaction_memory (both
\* write through execute_query), then the ChatResponse; a constructor that
\* raises is answered by the outer handler's ChatResponse
ChatFinish(save_ok, construct_ok) ==
    /\ chat.op = "chat"
    /\ chat.pc = "finish"
    /\ LET u == chat.user_id
           name == NameIn(chat.message)
           failures == Failures(Failures(chat.failures, save_ok), construct_ok)
       IN  /\ conversationHistory' =
                IF save_ok
                THEN save_conversation(conversationHistory, u, chat.message,
                                       chat.response.content, chat.response.mood)
                ELSE conversationHistory
           /\ chat_ret' = Answered(
                [answer |-> IF construct_ok THEN ChatResponse(chat.response)
                            ELSE UnexpectedErrorResponse,
                 failures |-> failures])
           /\ told' = IF failures = 0 /\ name # NoName
                      THEN [told EXCEPT ![u] =
                              @ \cup {[kind |-> "name", value |-> name]}]
                      ELSE told
    /\ chat' = Idle
    /\ UNCHANGED <<sysvars, snapshot, scored, generated, nchats, task, enginevars>>

NextChat ==
    \/ \E user_id \in RawUserIds, message \in Messages, context \in RawContexts :
          PostChat(user_id, message, context)
    \/ \E memory_ok \in BOOLEAN, fetch_ok \in BOOLEAN, snap \in ServiceSnapshots :
          ChatPrepare(memory_ok, fetch_ok, snap)
    \/ \E extraction_ok \in BOOLEAN, create_ok \in BOOLEAN, save_ok \in BOOLEAN,
          construct_ok \in BOOLEAN :
          ChatTaskDetection(extraction_ok, create_ok, save_ok, construct_ok)
    \/ \E analysis_ok \in BOOLEAN, mood_ok \in BOOLEAN, write_ok \in BOOLEAN :
          ChatAnalyze(analysis_ok, mood_ok, write_ok)
    \/ \E generation_ok \in BOOLEAN, create_ok \in BOOLEAN :
          ChatRespond(generation_ok, create_ok)
    \/ \E save_ok \in BOOLEAN, construct_ok \in BOOLEAN :
          ChatFinish(save_ok, construct_ok)

\* the chat endpoint alone
SpecChat == Init /\ [][NextChat]_vars


(***************************************************************************)
(* Properties of the chat endpoint                                         *)
(***************************************************************************)
\* the last request carried a well-formed UUID and a non-blank message
ValidChat(r) ==
    /\ r.op = "chat"
    /\ r.user_id \in UUIDs
    /\ validate_message(r.message)

\* C16: a chat_with_lumi request with a valid UUID always completes with a
\* ChatResponse and never with an error status, whatever combination of its
\* collaborators failed (memory load, context fetch, task extraction and
\* creation, context analysis, mood detection, response generation, memory
\* save, response construction).
C16_AlwaysChatResponse ==
    ValidChat(chat_ret)
    => /\ chat_ret.answer.status = 200
       /\ chat_ret.answer.model = "ChatResponse"

\* a request on whose way eight collaborators failed, the task creation of
\* _handle_task_intent with its HTTPException(500) among them, was answered
\* with the fallback greeting
C16_Witness ==
    /\ ValidChat(chat_ret)
    /\ chat_ret.caught = "HTTPException"
    /\ chat_ret.failures >= 8
    /\ chat_ret.answer.status = 200
    /\ chat_ret.answer.response = "fallback_greeting"

\* C18: POST /api/chat with the numeric user_id 123 (JSON number or string)
\* and a non-empty message is answered with status 200, for every form of
\* the context field.
C18_NumericUserIdAccepted ==
    (/\ chat_ret.op = "chat"
     /\ chat_ret.user_id = "123"
     /\ validate_message(chat_ret.message))
    => chat_ret.answer.status = 200

\* C19: once a chat in which the user states their name has been processed
\* and saved by save_conversation (no collaborator failing), get_user_name
\* returns that name.
C19_NameRemembered ==
    \A u \in Users : \A t \in told[u] :
        t.kind = "name" => get_user_name(conversationHistory, u) = t.value

\* C20: after a chat that created a task by intelligent extraction, a
\* pending-tasks query of the same user that met no failing collaborator
\* lists that task: the answer is neither "no pending tasks" nor the
\* technical-error fallback.
C20_CreatedTaskListed ==
    (/\ ValidChat(chat_ret)
     /\ IsPendingQuery(chat_ret.message)
     /\ chat_ret.failures = 0
     /\ \E t \in told[chat_ret.user_id] : t.kind = "task")
    => /\ chat_ret.answer.response = "tasks_listed"
       /\ \A t \in told[chat_ret.user_id] :
             t.kind = "task"
             => \E i \in DOMAIN chat_ret.answer.actions[1].tasks :
                   chat_ret.answer.actions[1].tasks[i].title = t.value

(***************************************************************************)
(* The primary-mood selection as a pure function of the score dict         *)
(***************************************************************************)
\* the scores a mood can have, in hundredths: nothing, below the 0.3 floor,
\* the floor itself and above 1.0
ScoreLevels == {0, 20, 30, 150}

\* personality_engine.py: max_score = max(values); score / max_score if > 0
NormalizeRaw(raw) ==
    LET max_score == MaxOfScores(raw)
    IN  [m \in Moods |-> IF max_score > 0 THEN Rat(raw[m], max_score) ELSE Rat(raw[m], 1)]

\* analyze_user_mood: mood_name, confidence = max(mood_scores.items(), key=...)
primary_mood(mood_scores) ==
    [mood |-> FirstMax(mood_scores), confidence |-> mood_scores[FirstMax(mood_scores)]]

\* both selections applied to one dict of scores: the detector takes them as
\* final scores, the engine as raw scores it normalises first
SelectPrimary(levels) ==
    /\ generated = NoResult
    /\ LET mood_scores == [m \in Moods |-> Rat(levels[m], 100)]
       IN  generated' =
             [op |-> "primary", mood_scores |-> mood_scores,
              detector |-> determine_primary_mood(mood_scores),
              normalized |-> NormalizeRaw(levels),
              engine |-> primary_mood(NormalizeRaw(levels))]
    /\ UNCHANGED <<sysvars, snapshot, scored, chatvars, enginevars>>

NextPrimary == \E levels \in [Moods -> ScoreLevels] : SelectPrimary(levels)

InitPrimary ==
    /\ InitSystem
    /\ lumi_memory = [u \in Users |-> NoRow]
    /\ snapshot = ZeroSnapshot
    /\ scored = Unscored

SpecPrimary == InitPrimary /\ [][NextPrimary]_vars

\* the largest score of a dict and the moods that have it
TopScore(scores) ==
    CHOOSE x \in {scores[m] : m \in Moods} : \A m \in Moods : RatLE(scores[m], x)
Maximisers(scores) == {m \in Moods : scores[m] = TopScore(scores)}

\* C21: _determine_primary_mood returns the default mood (none of the six
\* classifications) with confidence equal to the maximum score whenever that
\* maximum is below the 0.3 floor, every score being 0 included; and the
\* maximising mood with confidence min(score, 1.0) whenever it is at least 0.3.
C21_FloorThenMaximum ==
    generated.op = "primary" =>
       LET top == TopScore(generated.mood_scores)
           r == generated.detector
       IN  IF RatLT(top, MinConfidence)
           THEN r.mood \notin Moods /\ r.confidence = top
           ELSE /\ r.mood \in Maximisers(generated.mood_scores)
                /\ r.confidence = RatMin(top, One)

\* the mood of a set declared first in the rule table
FirstDeclared(S) ==
    MoodOrder[CHOOSE i \in 1..Len(MoodOrder) :
                 /\ MoodOrder[i] \in S
                 /\ \A j \in 1..(i - 1) : MoodOrder[j] \notin S]

C23_TimingAlignmentWhenPeakKnown ==
    scored.detect # NoResult =>
       LET indicators == scored.detect.result.indicators
       IN  IF snapshot.peak_hour # NoPeak
           THEN /\ HasIndicator(indicators, "timing_alignment")
                /\ IndicatorOf(indicators, "timing_alignment").value
                     = Rat(12 - Abs(HourOf(now) - snapshot.peak_hour), 12)
           ELSE ~HasIndicator(indicators, "timing_alignment")

\* C24: after any sequence of analyze_user_mood calls mood_cache retains no
\* entry whose timestamp is older than the 30-minute TTL: whenever a call has
\* stored its analysis, every entry the cache then holds is at most 30 minutes
\* old (expired entries were evicted or superseded).
C24_NoExpiredEntryRetained ==
    [][mood_cache' # mood_cache
         => \A k \in DOMAIN mood_cache' : now' - mood_cache'[k].timestamp <= CacheTTL]_vars

\* the indicator types whose descriptions a list of insights carries
Injected(insights) ==
    {insights[i].of : i \in {j \in 1..Len(insights) : insights[j].insight = "indicator"}}

\* C25: the indicator descriptions _generate_mood_insights injects are those
\* of the highest-weight indicators: at most two are injected, each is an
\* indicator of the list, and no indicator left out has a strictly higher
\* weight than an injected one, for every list _calculate_mood_indicators
\* produces.
C25_HighestWeightInjected ==
    scored.detect # NoResult =>
       LET r == scored.detect.result
           injected == Injected(r.insights)
           types == {r.indicators[i].indicator_type : i \in 1..Len(r.indicators)}
       IN  /\ Cardinality(injected) <= 2
           /\ injected \subseteq types
           /\ \A o \in types \ injected, i \in injected :
                 IndicatorOf(r.indicators, o).weight <= IndicatorOf(r.indicators, i).weight

\* three indicators reach the 0.7 threshold; the two injected are the ones of
\* weight 0.8 and 0.9 and the one of weight 0.7 is left out
C25_Witness ==
    /\ scored.detect # NoResult
    /\ Injected(scored.detect.result.insights) = {"completion_rate", "overdue_tasks"}
    /\ HasIndicator(scored.detect.result.indicators, "current_streak")
    /\ HasIndicator(scored.detect.result.indicators, "overwhelm_level")

\* the keys of the rule table
RuleKeys ==
    {MOOD_DETECTION_RULES[m][i].key : m \in Moods, i \in 1..4}

\* C26: no rule key of the shipped MOOD_DETECTION_RULES equals an indicator
\* type _calculate_mood_indicators produces, so for every user_context
\* _apply_detection_rules yields 0.0 for every mood (the bonuses are discarded
\* because total_weight is 0) and detect_current_mood returns current_mood
\* 'encouraging' with confidence 0.5 and no recommendations.
C26_AlwaysEncouraging ==
    scored.detect # NoResult =>
       LET r == scored.detect.result
       IN  /\ \A k \in RuleKeys : ~HasIndicator(r.indicators, k)
           /\ \A m \in Moods : r.mood_scores[m] = Zero
           /\ r.current_mood = "encouraging"
           /\ r.confidence = DefaultConfidence
           /\ r.recommendations = <<>>

\* a snapshot with a streak of 8 days, overdue tasks and a bonus for
\* "struggling" that the zero total weight discards
C26_Witness ==
    /\ scored.detect # NoResult
    /\ snapshot.current_streak = 8
    /\ snapshot.overdue_tasks > 0
    /\ MoodBonus("struggling", scored.detect.result.indicators) > 0
    /\ scored.detect.result.current_mood = "encouraging"

\* C27: on the computed path of analyze_user_mood the confidence is exactly
\* 1.0 whenever one of the six raw mood scores is positive, and 0.0 when all
\* six are zero, and then detected_mood is 'motivated' (the first mood
\* declared) with tone 'supportive'.
C27_ConfidenceOneOrZero ==
    scored.analyze # NoResult =>
       LET raw == RawMoodScores(snapshot, HourOf(now))
           r == scored.analyze.result
       IN  IF \E m \in Moods : raw[m] > 0
           THEN r.confidence = One
           ELSE /\ r.confidence = Zero
                /\ r.detected_mood = "motivated"
                /\ r.personality_tone = "supportive"

\* a one-day streak, three days of level activity and nothing else: all six
\* raw scores are zero and the analysis came back
C27_Witness ==
    /\ scored.analyze # NoResult
    /\ snapshot.current_streak = 1
    /\ \A m \in Moods : RawMoodScores(snapshot, HourOf(now))[m] = 0
    /\ scored.analyze.result.confidence = Zero
    /\ scored.analyze.result.detected_mood = "motivated"

(***************************************************************************)
(* core/ai_engine.py: AIEngine.generate_response, its rate limit and its   *)
(* retries                                                                 *)
(***************************************************************************)
\* config/ai_config.py
requests_per_minute == 60
requests_per_hour == 1000
max_retries == 3

\* request_history is a list of time.time() values; only how many entries
\* carry which timestamp matters to the code, so it is kept as a function
\* timestamp -> number of entries
RECURSIVE Entries(_, _)
Entries(history, times) ==
    IF times = {} THEN 0
    ELSE LET x == CHOOSE x \in times : TRUE
         IN  history[x] + Entries(history, times \ {x})

\* [req_time for req_time in history if now - req_time < window]
Within(history, t, window) ==
    [x \in {y \in DOMAIN history : t - y < window} |-> history[x]]

HistoryLen(history) == Entries(history, DOMAIN history)

\* request_history.append(t)
Append1(history, t) == Incr(history, t)

\* _check_rate_limit at time t: the pruned history and the verdict
check_rate_limit(history, t) ==
    LET pruned == Within(history, t, SecondsPerHour)
        recent_requests == Within(pruned, t, SecondsPerMinute)
    IN  [request_history |-> pruned,
         ok |-> IF HistoryLen(recent_requests) >= requests_per_minute THEN FALSE
                ELSE IF HistoryLen(pruned) >= requests_per_hour THEN FALSE
                ELSE TRUE]

\* the AIResponse objects generate_response builds
RateLimitedResponse ==
    Response("rate_limited", "neutral", "apologetic", <<>>, "rate_limited")

\* 999 requests answered at the full rate of 60 a minute, the last of them
\* ten minutes ago
BusyHour ==
    LET full == (requests_per_hour - 1) \div requests_per_minute
        rest == (requests_per_hour - 1) % requests_per_minute
    IN  [x \in {StartNow - 600 - SecondsPerMinute * k : k \in 0..full} |->
            IF x = StartNow - 600 - SecondsPerMinute * full THEN rest
            ELSE requests_per_minute]

\* the histories the engine starts from: a fresh process, one that answered 59
\* requests ten seconds ago, and one that answered 999 requests in the last
\* half hour
InitialHistories ==
    { <<>>,
      (StartNow - 10) :> (requests_per_minute - 1),
      BusyHour }

InitEngine ==
    /\ now = StartNow
    /\ ticks = 0
    /\ ncalls = 0
    /\ lumi_memory = [u \in Users |-> NoRow]
    /\ mood_cache = <<>>
    /\ call = [c \in Callers |-> Idle]
    /\ ret = [c \in Callers |-> NoResult]
    /\ pipeline_runs = <<>>
    /\ score_computes = <<>>
    /\ generated = NoResult
    /\ chat = Idle
    /\ chat_ret = NoResult
    /\ nchats = 0
    /\ task = [u \in Users |-> <<>>]
    /\ conversationHistory = [u \in Users |-> <<>>]
    /\ told = [u \in Users |-> {}]
    /\ snapshot = ZeroSnapshot
    /\ scored = Unscored
    /\ request_history \in InitialHistories
    /\ model_requests = request_history

\* generate_response up to its first suspension: the rate-limit check, and
\* when it passes analyze_user_mood, the prompt and the first model call
GenerateResponse(c, u, snap) ==
    /\ MayStart(c)
    /\ ncalls < MaxCalls
    /\ ncalls' = ncalls + 1
    /\ LET limit == check_rate_limit(request_history, now)
           analysis == AnalyzeUserMood(mood_cache, snap, u, now)
       IN  /\ request_history' = limit.request_history
           /\ IF ~limit.ok
              THEN /\ ret' = [ret EXCEPT ![c] =
                                [op |-> "generate", outcomes |-> <<>>,
                                 raised |-> FALSE, result |-> RateLimitedResponse]]
                   /\ UNCHANGED <<call, mood_cache, model_requests>>
              ELSE /\ call' = [call EXCEPT ![c] =
                                 [op |-> "generate", pc |-> "calling",
                                  attempt |-> 0, outcomes |-> <<>>,
                                  personality_profile |-> analysis.profile]]
                   /\ mood_cache' = analysis.cache
                   /\ model_requests' = Incr(model_requests, now)
                   /\ UNCHANGED ret
    /\ UNCHANGED <<now, ticks, lumi_memory, pipeline_runs, score_computes,
                   snapshot, scored, generated, chatvars>>

\* the outcomes of one model call under asyncio.wait_for
CallOutcomes == {"ok", "timeout", "error"}

\* mutation of retry_step: the loop runs once more than max_retries
\* (range(max_retries + 1))
retry_step_one_more(attempt, outcome) ==
    IF outcome = "ok" THEN "return"
    ELSE IF attempt < max_retries THEN "retry"
    ELSE "raise"

\* _generate_with_retry, one iteration of `for attempt in range(max_retries)`:
\* a response is returned at once; TimeoutError and any other exception are
\* logged, followed by a sleep and the next iteration, or after the last
\* iteration by the raise below the loop
retry_step(attempt, outcome) ==
    IF outcome = "ok" THEN "return"
    ELSE IF attempt < max_retries - 1 THEN "retry"
    ELSE "raise"

\* a model call of a request ends.  On a response generate_response records
\* the request time and returns the processed response; the exception raised
\* after the last attempt is caught by its `except Exception`
ModelCallEnds(c, outcome) ==
    /\ call[c].op = "generate"
    /\ LET step == retry_step(call[c].attempt, outcome)
           outcomes == Append(call[c].outcomes, outcome = "ok")
       IN  CASE step = "return" ->
                  /\ request_history' = Append1(request_history, now)
                  /\ ret' = [ret EXCEPT ![c] =
                               [op |-> "generate", outcomes |-> outcomes,
                                raised |-> FALSE,
                                result |-> generate_response(call[c].personality_profile, TRUE)]]
                  /\ call' = [call EXCEPT ![c] = Idle]
             [] step = "retry" ->
                  /\ call' = [call EXCEPT ![c].attempt = @ + 1, ![c].outcomes = outcomes]
                  /\ UNCHANGED <<request_history, ret>>
             [] step = "raise" ->
                  /\ ret' = [ret EXCEPT ![c] =
                               [op |-> "generate", outcomes |-> outcomes,
                                raised |-> FALSE,
                                result |-> generate_response(call[c].personality_profile, FALSE)]]
                  /\ call' = [call EXCEPT ![c] = Idle]
                  /\ UNCHANGED request_history
    /\ UNCHANGED <<now, ticks, ncalls, lumi_memory, mood_cache, pipeline_runs,
                   score_computes, snapshot, scored, generated, chatvars, model_requests>>

NextEngine ==
    \/ Tick(SecondsPerMinute)
    \/ \E c \in Callers, u \in Users, snap \in ServiceSnapshots : GenerateResponse(c, u, snap)
    \/ \E c \in Callers, outcome \in CallOutcomes : ModelCallEnds(c, outcome)

SpecEngine == InitEngine /\ [][NextEngine]_vars

\* asyncio.wait_for ends every model call with a response, an exception or,
\* after request_timeout seconds, a TimeoutError
SpecEngineFair ==
    SpecEngine /\ \A c \in Callers : WF_vars(\E outcome \in CallOutcomes : ModelCallEnds(c, outcome))

\* the requests that passed _check_rate_limit in the window of the given
\* length that starts at s
Admitted(s, window) ==
    Entries(model_requests, {x \in DOMAIN model_requests : s <= x /\ x < s + window})

\* C28: under any interleaving of concurrent generate_response calls, the
\* requests that pass _check_rate_limit and call the model within any window
\* of 60 seconds never exceed requests_per_minute (60) and within any hour
\* never exceed requests_per_hour (1000): requests in flight and requests
\* that failed count against the limit.
C28_RateLimitHolds ==
    \A s \in DOMAIN model_requests :
       /\ Admitted(s, SecondsPerMinute) <= requests_per_minute
       /\ Admitted(s, SecondsPerHour) <= requests_per_hour

\* the generate_response requests that returned
Generated == {c \in Callers : ret[c] # NoResult /\ ret[c].op = "generate"}

AllFailed(outcomes) == \A i \in 1..Len(outcomes) : ~outcomes[i]

\* C29: _generate_with_retry calls the model at most max_retries (3) times,
\* returns the first successful response without a further attempt and raises
\* only after the last attempt failed or timed out; generate_response never
\* propagates the exception: it answers with an AIResponse, the apologetic
\* fallback when every attempt failed, and every request that started
\* returns.
C29_BoundedRetriesAndFallback ==
    /\ [](\A c \in Callers :
            /\ call[c].op = "generate" =>
                  /\ call[c].attempt < max_retries
                  /\ Len(call[c].outcomes) = call[c].attempt
                  /\ AllFailed(call[c].outcomes)
            /\ c \in Generated =>
                  /\ ~ret[c].raised /\ ~ret[c].result.raised
                  /\ Len(ret[c].outcomes) <= max_retries
                  /\ ret[c].result.content = "ai_generated"
                        <=> /\ ret[c].outcomes # <<>>
                            /\ ret[c].outcomes[Len(ret[c].outcomes)]
                  /\ ret[c].result.content = "ai_generated"
                        => AllFailed(SubSeq(ret[c].outcomes, 1, Len(ret[c].outcomes) - 1))
                  /\ ret[c].result.content = "ai_error"
                        <=> /\ Len(ret[c].outcomes) = max_retries
                            /\ AllFailed(ret[c].outcomes)
                  /\ ret[c].result.content = "rate_limited" <=> ret[c].outcomes = <<>>)
    /\ \A c \in Callers : (call[c].op = "generate") ~> (call[c] = Idle)

\* one request got its response at the third attempt while another one failed
\* three times and was answered with the apologetic fallback
C29_Witness ==
    \E c1, c2 \in Generated :
       /\ ret[c1].outcomes = <<FALSE, FALSE, TRUE>>
       /\ ret[c1].result.content = "ai_generated"
       /\ ret[c2].outcomes = <<FALSE, FALSE, FALSE>>
       /\ ret[c2].result.content = "ai_error"
       /\ ret[c2].result.personality_tone = "apologetic"

(***************************************************************************)
(* api/analytics_handler.py: feedback learning, the other writer of the    *)
(* lumi_memory row                                                         *)
(***************************************************************************)
\* the ratings a feedback carries
Ratings == {1, 5}

\* json.dumps of the profile and of the patterns derived from a rating
ProfileJson(rating) ==
    IF rating = 1 THEN "{user_satisfaction: 1}" ELSE "{user_satisfaction: 5}"
PatternsJson(rating) ==
    IF rating = 1 THEN "{avg_rating: 1}" ELSE "{avg_rating: 5}"

\* _process_feedback_learning: the profile and the patterns derived from the
\* feedback go through update_lumi_memory; a failure is logged
ProcessFeedbackLearning(u, rating, write_ok) ==
    /\ lumi_memory[u].present => lumi_memory[u].interactionCount < MaxInteractions
    /\ LET learning_data ==
              [personality_profile |-> ProfileJson(rating),
               behavior_patterns   |-> PatternsJson(rating)]
       IN  lumi_memory' = IF write_ok
                          THEN [lumi_memory EXCEPT ![u] = UpsertLumiMemory(@, learning_data)]
                          ELSE lumi_memory
    /\ UNCHANGED <<now, ticks, ncalls, mood_cache, call, ret, pipeline_runs,
                   score_computes, snapshot, scored, generated, chatvars, enginevars>>

NextMemory ==
    \/ \E c \in Callers, u \in Users, snap \in ServiceSnapshots : DetectCall(c, u, snap)
    \/ \E c \in Callers, read_ok \in BOOLEAN : DetectRead(c, read_ok)
    \/ \E c \in Callers, write_ok \in BOOLEAN : DetectWrite(c, write_ok)
    \/ \E c \in Callers : DetectRaise(c)
    \/ \E u \in Users, rating \in Ratings, write_ok \in BOOLEAN :
          ProcessFeedbackLearning(u, rating, write_ok)

SpecMemory == Init /\ [][NextMemory]_vars

\* a detect_current_mood call persists its mood snapshot in this step
MoodPersisted(u) ==
    \E c \in Callers : /\ call[c].op = "detect" /\ call[c].pc = "write"
                       /\ call[c].user = u /\ call'[c] = Idle
                       /\ lumi_memory'[u] # lumi_memory[u]

\* feedback learning writes the row in this step
FeedbackProcessed(u) == call' = call /\ lumi_memory'[u] # lumi_memory[u]

====
